---- MODULE Spec2Model ----
(***************************************************************************)
(* A model of the vortex node runtime (src/src/node.rs, io.rs, lib.rs,     *)
(* message.rs): the init handshake, the blocking stdin reader and stdout   *)
(* writer, the main loop that spawns one handler task per inbound message, *)
(* and Node::send / reply / rpc / ack.                                     *)
(*                                                                         *)
(* Threads.  The handler tasks and the main loop run on one cooperative    *)
(* scheduler thread (every binary uses the current_thread runtime): one    *)
(* action of a task is one poll, from where it resumed to its next .await  *)
(* that suspends.  The reader and the writer are OS threads of their own   *)
(* (spawn_blocking) and interleave with a poll anywhere; `running` names   *)
(* the task that is inside a poll the model splits in two, so that what    *)
(* the writer can do between the two halves is visible.                    *)
(***************************************************************************)
EXTENDS Integers, Sequences, FiniteSets, TLC

(* ---------------------------------------------------------------- bounds *)
\* Lines the harness feeds to stdin after the init line.
MaxLines == 3
\* Retry-timer firings over the whole run (the code has no bound).
MaxRetries == 2

(* ------------------------------------------------------------- constants *)
\* mpsc::channel(8): the capacity of the inbound and of the outbound queue.
ChanCap == 8
\* tokio::sync::mpsc::channel(1): the capacity of the fatal channel.
FatalCap == 1
\* msg_id: 1.into()
FirstMsgId == 1

(* ---------------------------------------------------------------- values *)
\* Option<T>: None is the empty sequence, Some(x) the one-element sequence.
None == << >>
Some(x) == << x >>
IsSome(o) == o /= None
Unwrap(o) == o[1]

NodeId == "n1"
Client == "c1"
\* The peers a handler addresses an rpc or a send to, and a peer it never
\* addresses.
Peers == {"n2"}
OtherPeer == "n3"
\* The payload of the reply that is the harness's k-th line: no two replies
\* carry the same one.
ReplyVal(k) == "v" \o ToString(k)
\* The msg_id the harness gives its k-th line.
ClientMsgId(k) == 100 + k

\* message.rs, Message<P> / Body<P>: the envelope.
Message(src, dst, msg_id, in_reply_to, payload) ==
    [src |-> src, dest |-> dst, msg_id |-> msg_id,
     in_reply_to |-> in_reply_to, payload |-> payload]

Payload(type, val) == [type |-> type, val |-> val]

\* A line of stdin: text that is a JSON envelope (wf) or is not.
Line(wf, msg) == [wf |-> wf, msg |-> msg]

\* serde_json::from_str::<Message<_>>(&line): Some(msg) or None (a parse error).
Parse(line) == IF line.wf THEN Some(line.msg) ELSE None

\* A correlation key that leaves the peer out.
TokenByIdOnly(peer, id) == ToString(id)

\* format_compact!("{peer}:{msg_id}"): the key of the pending-reply table.
Token(peer, id) == peer \o ":" \o ToString(id)

\* A counter read that does not advance the counter.
FetchSame(c) == c

\* self.msg_id.fetch_add(1, AcqRel): the counter after the call (the call
\* returns the counter before it).  The u32 wraps at 2^32, far beyond the
\* allocations a run of this model makes.
FetchAdd(c) == c + 1

VARIABLES
    mainpc,         \* "init" | "init_written" | "running" | "exit_ok"
                    \* | "exit_err" | "aborted"
    initMsg,        \* Option: the init request Node::new parsed
    readerpc,       \* "off" | "reading" | "eof" | "failed": the stdin worker
    writerOn,       \* the stdout worker has been spawned
    nread,          \* lines the reader has read after the init line
    skipped,        \* history: the reader met a line that does not parse
    inq,            \* the inbound queue (tx_in / rx_in)
    outq,           \* the outbound queue (tx_out / rx_out)
    written,        \* the lines written to stdout
    msg_id,         \* Node.msg_id
    pending_reply,  \* Node.pending_reply: token -> the task holding the receiver
    tasks,          \* the handler tasks, one per inbound message, in spawn order
    running,        \* the task inside a poll that the model splits, or 0
    fatal,          \* the fatal channel (c_tx / c_rx)
    exitErr,        \* Option: the error the main loop returned
    retries,        \* retry-timer firings so far
    enqLog,         \* history: the envelopes in the order they entered outq
    allocLog,       \* history: the msg_ids in the order fetch_add returned them
    ackLog          \* history: the calls of Node::ack, in order

\* The workloads that run on several nodes, or against a service, are
\* modelled apart from the runtime above, each by a specification of its own
\* that leaves the runtime in its initial state.
VARIABLES
    uidCtr,         \* unique-id: node -> Node.msg_id
    uidTasks,       \* unique-id: node -> the handler tasks spawned, in order
    uidOut          \* unique-id: the replies the nodes have enqueued

VARIABLES
    kvOp,           \* KV call: "" | "read" | "write" | "cas", the operation called
    kvResp,         \* KV call: Option, the payload the service answered
    kvAck,          \* KV call: Option, the Result handle_kv passed to Node::ack
    kvRet           \* KV call: Option, what the operation returned

VARIABLES
    kvStore,        \* fetch-and: Option, the value the service holds for the key
    wLeft,          \* fetch-and: writes the other writers of the key have left
    faPc,           \* fetch-and: "idle" | "read1" | "cas" | "read2" | "done" | "err"
    faKv,           \* fetch-and: kv_val, the Option<Value> last read
    faVal,          \* fetch-and: val, the value func was applied to
    faReq,          \* fetch-and: Option, the request of the rpc in progress
    faSent,         \* fetch-and: copies of it sent so far (the first and the retries)
    faCopies,       \* fetch-and: copies of it the service has not served yet
    faReplies,      \* fetch-and: replies to it on their way to the node
    faStale         \* fetch-and: CAS requests of rpcs that returned, still unserved

uidVars == << uidCtr, uidTasks, uidOut >>
kvVars == << kvOp, kvResp, kvAck, kvRet >>
VARIABLES
    bNodes,         \* broadcast: the nodes of the cluster (none before init)
    bTopo,          \* broadcast: node -> its topology request has been handled
    bPeers,         \* broadcast: node -> peers, the Vec handle_topology sets
    bMessages,      \* broadcast: node -> messages, the set handle_read returns
    bBuffer,        \* broadcast: node -> buffer, the values waiting to be gossiped
    bFl,            \* broadcast: node -> the batch-sending task: its batch, the
                    \*   peers still to call and the peer whose reply it awaits
    bNet,           \* broadcast: the messages between nodes, not yet delivered
    bLeft,          \* broadcast: broadcast requests the clients have left to send
    bAcked,         \* history: node -> the values it has replied broadcast_ok for
    bRead           \* history: node -> Option, its last read_ok and what it had
                    \*   acknowledged by then

faVars == << kvStore, wLeft, faPc, faKv, faVal, faReq, faSent, faCopies,
             faReplies, faStale >>
bVars == << bNodes, bTopo, bPeers, bMessages, bBuffer, bFl, bNet, bLeft,
            bAcked, bRead >>

VARIABLES
    cStore,         \* KV clients: key -> Option, what the KV service holds
    cTasks,         \* KV clients: the handler tasks spawned on the nodes, in order
    cReqs,          \* KV clients: request copies on their way to the service
                    \*   or to a node
    cReplies,       \* KV clients: replies on their way to a handler's rpc
    cLogs,          \* kafka: node -> logs, the pairs (offset, msg) of the node
    cOut,           \* history: the replies the handlers sent to the clients
    cCas            \* history: the CAS requests that changed the store

VARIABLES
    state,          \* txn: key -> Option, the node's State
    txnIn,          \* history: Option, the txn last handled
    txnOk,          \* history: Option, the txn_ok it was answered with
    txnTasks,       \* txn: the handler tasks spawned and not yet finished
    txnLog          \* history: the txns answered, in the order of the replies

cVars == << cStore, cTasks, cReqs, cReplies, cLogs, cOut, cCas >>
tVars == << state, txnIn, txnOk, txnTasks, txnLog >>
xVars == << cVars, tVars >>

wlVars == << uidVars, kvVars, faVars, bVars, xVars >>

vars == << mainpc, initMsg, readerpc, writerOn, nread, skipped, inq, outq,
           written, msg_id, pending_reply, tasks, running, fatal,
           exitErr, retries, enqLog, allocLog, ackLog, wlVars >>

\* The runtime of one node (all of the above).
rtVars == << mainpc, initMsg, readerpc, writerOn, nread, skipped, inq, outq,
             written, msg_id, pending_reply, tasks, running, fatal,
             exitErr, retries, enqLog, allocLog, ackLog >>

ioVars == << readerpc, writerOn, nread, skipped, inq, written >>
nodeVars == << msg_id, pending_reply, outq, enqLog, allocLog >>
histVars == << retries, ackLog >>

TaskIds == 1 .. Len(tasks)

\* The nodes of a unique-id cluster.
UidNodes == {"n1", "n2"}

\* Writes the other writers of the key make in a run.
MaxWrites == 2

\* The nodes a broadcast cluster is made of, and the broadcast requests the
\* clients send in a run.
AllB == {"n1", "n2", "n3"}
MaxBcast == 2

\* The batch-sending task asleep between two rounds.
Asleep == [pending |-> { }, todo |-> << >>, wait |-> ""]

\* The nodes of a g-counter or kafka cluster, in the order of node_ids.
CNodes == {"n1", "n2"}
CNodeIds == << "n1", "n2" >>

\* The kafka keys the clients use, and the keys the handlers keep in lin-kv.
KafkaKeys == {"k"}
OffsetKey(key) == key \o ":offset"
CommittedKey(key) == key \o ":committed"

\* The keys of the KV services.
CKeys == CNodes \cup { OffsetKey(k) : k \in KafkaKeys }
                \cup { CommittedKey(k) : k \in KafkaKeys }

\* The keys of a txn.
TxnKeys == {1, 2}

\* The workloads before anything has happened: every node's counter is what
\* Node::new sets it to.
WlInit ==
    /\ uidCtr = [n \in UidNodes |-> FirstMsgId]
    /\ uidTasks = [n \in UidNodes |-> << >>]
    /\ uidOut = { }
    /\ kvOp = "" /\ kvResp = None /\ kvAck = None /\ kvRet = None
    /\ kvStore = None /\ wLeft = MaxWrites
    /\ faPc = "idle" /\ faKv = None /\ faVal = 0 /\ faReq = None
    /\ faSent = 0 /\ faCopies = 0 /\ faReplies = { } /\ faStale = { }
    /\ bNodes = { } /\ bNet = { } /\ bLeft = MaxBcast
    /\ bTopo = [n \in AllB |-> FALSE]
    /\ bPeers = [n \in AllB |-> << >>]
    /\ bMessages = [n \in AllB |-> { }]
    /\ bBuffer = [n \in AllB |-> { }]
    /\ bFl = [n \in AllB |-> Asleep]
    /\ bAcked = [n \in AllB |-> { }]
    /\ bRead = [n \in AllB |-> None]
    /\ cStore = [k \in CKeys |-> None]
    /\ cTasks = << >> /\ cReqs = { } /\ cReplies = { }
    /\ cLogs = [n \in CNodes |-> { }]
    /\ cOut = << >> /\ cCas = { }
    /\ state = [k \in TxnKeys |-> None]
    /\ txnIn = None /\ txnOk = None
    /\ txnTasks = { } /\ txnLog = << >>

Init ==
    /\ mainpc = "init"
    /\ initMsg = None
    /\ readerpc = "off"
    /\ writerOn = FALSE
    /\ nread = 0
    /\ skipped = FALSE
    /\ inq = << >>
    /\ outq = << >>
    /\ written = << >>
    /\ msg_id = 0
    /\ pending_reply = << >>
    /\ tasks = << >>
    /\ running = 0
    /\ fatal = << >>
    /\ exitErr = None
    /\ retries = 0
    /\ enqLog = << >>
    /\ allocLog = << >>
    /\ ackLog = << >>
    /\ WlInit

(* -------------------------------------------------------- init handshake *)
\* The first line the harness may send: an init request, with or without a
\* msg_id, or text that is no init request.
InitLines ==
    { Line(TRUE, Message(Client, NodeId, mid, None, Payload("init", NodeId)))
        : mid \in {None, Some(ClientMsgId(0))} }
    \cup { Line(FALSE, Message(Client, NodeId, None, None, Payload("", ""))) }

\* An init_ok that does not echo the request's msg_id.
InitOkNoEcho(init) ==
    Message(init.dest, init.src, None, None, Payload("init_ok", ""))

\* Node::new: the init_ok it synthesizes for the init request.
InitOk(init) ==
    Message(init.dest, init.src, None, init.msg_id, Payload("init_ok", ""))

\* Node::new, first half: read one line, parse it as Message<Init>, write
\* init_ok straight to stdout.  A line that does not parse makes new() return
\* Err before anything is written, and the process ends.
NodeNew ==
    /\ mainpc = "init"
    /\ \E line \in InitLines :
         IF Parse(line) = None
         THEN /\ mainpc' = "aborted"
              /\ UNCHANGED << initMsg, written >>
         ELSE /\ initMsg' = Parse(line)
              /\ written' = Append(written, InitOk(Unwrap(Parse(line))))
              /\ mainpc' = "init_written"
    /\ UNCHANGED << readerpc, writerOn, msg_id, nread, skipped, inq, outq,
                    pending_reply, tasks, running, fatal, exitErr, retries,
                    enqLog, allocLog, ackLog >>
    /\ UNCHANGED wlVars

\* Node::new, second half: make the two queues, spawn the stdin and the
\* stdout worker, build the Node with msg_id = 1; main_loop then starts.
NodeNewSpawn ==
    /\ mainpc = "init_written"
    /\ readerpc' = "reading"
    /\ writerOn' = TRUE
    /\ msg_id' = FirstMsgId
    /\ mainpc' = "running"
    /\ UNCHANGED << initMsg, written, nread, skipped, inq, outq, pending_reply,
                    tasks, running, fatal, exitErr, retries, enqLog, allocLog,
                    ackLog >>
    /\ UNCHANGED wlVars

(* ----------------------------------------------------------- the harness *)
\* What the harness may write to the node's stdin as its k-th line: a request
\* of a client, a reply of a peer to an envelope the node has written (peers
\* answer what they received, possibly more than once because of retries), a
\* reply that answers nothing the addressed peer was sent, or text that is
\* no envelope.
RequestLines(k) ==
    { Line(TRUE, Message(Client, NodeId, mid, None, Payload("do_reply", "")))
        : mid \in {None, Some(ClientMsgId(k))} }
    \cup { Line(TRUE, Message(Client, NodeId, Some(ClientMsgId(k)), None,
                              Payload("do_send", "n2"))) }
    \cup { Line(TRUE, Message(Client, NodeId, Some(ClientMsgId(k)), None,
                              Payload("do_rpc", p))) : p \in Peers }

\* The envelopes on stdout that carry a msg_id (all but init_ok).
Sent == { written[i] : i \in { j \in 1 .. Len(written) : IsSome(written[j].msg_id) } }

ReplyLines(k) ==
    { Line(TRUE, Message(p, NodeId, Some(ClientMsgId(k)), e.msg_id,
                         Payload("ok", ReplyVal(k))))
        : e \in Sent, p \in Peers \cup {OtherPeer} }
    \cup { Line(TRUE, Message("n2", NodeId, Some(ClientMsgId(k)), None,
                              Payload("ok", ReplyVal(k)))) }

GarbageLines == { Line(FALSE, Message("", "", None, None, Payload("", ""))) }

StdinLines(k) == RequestLines(k) \cup ReplyLines(k) \cup GarbageLines

(* ------------------------------------------------------------- transport *)
\* io.rs stdin(): what the worker does with one line.  A line that parses is
\* sent on the inbound queue; at a line that does not, the worker returns Err
\* and reads no further line.
StdinStep(line) ==
    IF IsSome(Parse(line))
    THEN [pc |-> "reading", put |-> Parse(line)]
    ELSE [pc |-> "failed", put |-> None]

\* io.rs stdin(): one iteration of `for line in stdin.lines()`.  blocking_send
\* waits for room on the inbound queue; it fails once the main loop has
\* dropped the receiver, which the model leaves out (the reader then stops).
ReaderRead ==
    /\ readerpc = "reading"
    /\ mainpc = "running"
    /\ nread < MaxLines
    /\ Len(inq) < ChanCap
    /\ \E line \in StdinLines(nread + 1) :
         LET r == StdinStep(line) IN
         /\ readerpc' = r.pc
         /\ inq' = IF IsSome(r.put) THEN Append(inq, Unwrap(r.put)) ELSE inq
         /\ skipped' = (skipped \/ Parse(line) = None)
    /\ nread' = nread + 1
    /\ UNCHANGED << mainpc, initMsg, writerOn, written, tasks, running, fatal,
                    exitErr, nodeVars, histVars >>
    /\ UNCHANGED wlVars

\* io.rs stdin(): stdin is at EOF, the loop ends and the worker returns Ok,
\* dropping the inbound sender.
ReaderEOF ==
    /\ readerpc = "reading"
    /\ mainpc = "running"
    /\ readerpc' = "eof"
    /\ UNCHANGED << mainpc, initMsg, writerOn, nread, skipped, inq, written,
                    tasks, running, fatal, exitErr, nodeVars, histVars >>
    /\ UNCHANGED wlVars

\* A writer that takes the newest envelope of the queue.
StdoutLifo(q, out) ==
    [q |-> SubSeq(q, 1, Len(q) - 1), out |-> Append(out, q[Len(q)])]

\* io.rs stdout(): what one iteration of `while let Some(msg) = rx.blocking_recv()`
\* takes off the queue and appends to stdout.
StdoutStep(q, out) == [q |-> Tail(q), out |-> Append(out, Head(q))]

\* io.rs stdout(): the writer thread; it runs whatever the scheduler thread
\* is doing, and goes on draining the queue after the main loop has ended.
WriterWrite ==
    /\ writerOn
    /\ outq /= << >>
    /\ outq' = StdoutStep(outq, written).q
    /\ written' = StdoutStep(outq, written).out
    /\ UNCHANGED << mainpc, initMsg, readerpc, writerOn, nread, skipped, inq,
                    msg_id, pending_reply, tasks, running, fatal,
                    exitErr, retries, enqLog, allocLog, ackLog >>
    /\ UNCHANGED wlVars

(* ------------------------------------------------------------- main loop *)
\* A handler task as tokio::spawn creates it: not yet polled.
\*   st     "spawned" | "rpc_enq" | "rpc_wait" | "fatal_wait" | "done"
\*          | "cancelled"
\*   env    the envelope the task originated
\*   rx     the oneshot of the task's rpc: the value ack sent, not yet received
\*   result what rpc returned to the handler
\*   ret    what the handler returned: "" (still running), "ok" or the error
NewTask(msg) ==
    [st |-> "spawned", msg |-> msg, env |-> None, rx |-> None,
     result |-> None, ret |-> ""]

\* The scheduler thread is free: the main loop runs and no task is mid-poll.
Sched == mainpc = "running" /\ running = 0

\* lib.rs main_loop, `msg = rx.recv()` gives Some(msg): spawn a handler task.
MainRecv ==
    /\ Sched
    /\ inq /= << >>
    /\ tasks' = Append(tasks, NewTask(Head(inq)))
    /\ inq' = Tail(inq)
    /\ UNCHANGED << mainpc, initMsg, readerpc, writerOn, nread, skipped,
                    written, running, fatal, exitErr, nodeVars, histVars >>
    /\ UNCHANGED wlVars

\* lib.rs main_loop, `msg = rx.recv()` gives None (the reader has returned and
\* the queue is empty): break Ok(()).
MainEOF ==
    /\ Sched
    /\ inq = << >>
    /\ readerpc \in {"eof", "failed"}
    /\ mainpc' = "exit_ok"
    /\ UNCHANGED << initMsg, readerpc, writerOn, nread, skipped, inq, written,
                    tasks, running, fatal, exitErr, nodeVars, histVars >>
    /\ UNCHANGED wlVars

\* lib.rs main_loop, `err = c_rx.recv()` gives Some(err): break Err(err).
MainFatal ==
    /\ Sched
    /\ fatal /= << >>
    /\ mainpc' = "exit_err"
    /\ exitErr' = Some(Head(fatal))
    /\ fatal' = Tail(fatal)
    /\ UNCHANGED << initMsg, readerpc, writerOn, nread, skipped, inq, written,
                    tasks, running, nodeVars, histVars >>
    /\ UNCHANGED wlVars

(* ------------------------------------------------------------- node core *)
\* Node::send: the envelope it builds.
SendMsg(peer, payload, id) == Message(NodeId, peer, Some(id), None, payload)

\* A reply that copies the request's in_reply_to instead of its msg_id.
ReplyMsgEcho(from, payload, id) ==
    Message(from.dest, from.src, Some(id), from.in_reply_to, payload)

\* Node::reply: the envelope it builds.
ReplyMsg(from, payload, id) ==
    Message(from.dest, from.src, Some(id), from.msg_id, payload)

\* Node::rpc: the envelope it builds.
RpcMsg(peer, payload, id) == Message(NodeId, peer, Some(id), None, payload)

\* Message::reply (message.rs).
MessageReply(from, id, payload) ==
    Message(from.dest, from.src, id, from.msg_id, payload)

\* The handler of the workload (main_loop's func), by the type of the inbound
\* payload: it replies, sends, or calls a peer; "ok" is a reply, which the
\* workload hands to Node::ack.
Originated(m, id) ==
    CASE m.payload.type = "do_reply" -> ReplyMsg(m, Payload("reply_ok", ""), id)
      [] m.payload.type = "do_send" -> SendMsg(m.payload.val, Payload("note", ""), id)
      [] m.payload.type = "do_rpc" -> RpcMsg(m.payload.val, Payload("call", ""), id)

\* out_chan.send(..).await completes without suspending: the queue has room.
\* A run of this model originates fewer than ChanCap envelopes, so a sender
\* never has to wait for the writer.
CanSend == Len(outq) < ChanCap

\* Node::send / reply / rpc up to the end of out_chan.send: fetch_add, build
\* the envelope, enqueue it.  A send or reply is then done; an rpc has
\* enqueued its request and has still to insert its slot.
HandleOriginate(t) ==
    /\ Sched
    /\ CanSend
    /\ tasks[t].st = "spawned"
    /\ tasks[t].msg.payload.type \in {"do_reply", "do_send", "do_rpc"}
    /\ LET m == tasks[t].msg
           env == Originated(m, msg_id)
           rpc == m.payload.type = "do_rpc"
       IN  /\ msg_id' = FetchAdd(msg_id)
           /\ allocLog' = Append(allocLog, msg_id)
           /\ outq' = Append(outq, env)
           /\ enqLog' = Append(enqLog, env)
           /\ running' = IF rpc THEN t ELSE 0
           /\ tasks' = [tasks EXCEPT ![t].env = Some(env),
                           ![t].st = IF rpc THEN "rpc_enq" ELSE "done",
                           ![t].ret = IF rpc THEN "" ELSE "ok"]
    /\ UNCHANGED << mainpc, initMsg, ioVars, pending_reply, fatal, exitErr,
                    histVars >>
    /\ UNCHANGED wlVars

\* Node::rpc: self.pending_reply.insert(token, tx)
Register(pr, tok, t) == (tok :> t) @@ pr

\* Node::rpc after its first send: make the token and the oneshot, insert the
\* sender into the table, enter the select loop.  Same poll as the send: no
\* other task runs in between, the writer thread may.
RpcRegister(t) ==
    /\ running = t
    /\ tasks[t].st = "rpc_enq"
    /\ LET env == Unwrap(tasks[t].env) IN
       pending_reply' = Register(pending_reply, Token(env.dest, Unwrap(env.msg_id)), t)
    /\ tasks' = [tasks EXCEPT ![t].st = "rpc_wait"]
    /\ running' = 0
    /\ UNCHANGED << mainpc, initMsg, ioVars, msg_id, outq, enqLog,
                    allocLog, fatal, exitErr, histVars >>
    /\ UNCHANGED wlVars

\* A retry that stamps the envelope with the counter's present value.
RetryFresh(task) == [Unwrap(task.env) EXCEPT !.msg_id = Some(msg_id)]

\* Node::rpc, the sleep branch: msg.clone()
RetryMsg(task) == Unwrap(task.env)

\* Node::rpc, `_ = sleep(RPC_LATENCY)` wins the select: send the same message
\* again.  select! may take this branch also when the reply is already there.
RetryFire(t) ==
    /\ Sched
    /\ CanSend
    /\ tasks[t].st = "rpc_wait"
    /\ retries < MaxRetries
    /\ retries' = retries + 1
    /\ outq' = Append(outq, RetryMsg(tasks[t]))
    /\ enqLog' = Append(enqLog, RetryMsg(tasks[t]))
    /\ UNCHANGED << mainpc, initMsg, ioVars, msg_id, pending_reply, allocLog,
                    tasks, running, fatal, exitErr, ackLog >>
    /\ UNCHANGED wlVars

\* Node::rpc, `res = &mut rx` wins the select with Ok(res): return it; the
\* handler is done.
RpcReturn(t) ==
    /\ Sched
    /\ tasks[t].st = "rpc_wait"
    /\ IsSome(tasks[t].rx)
    /\ tasks' = [tasks EXCEPT ![t].st = "done", ![t].result = tasks[t].rx,
                              ![t].rx = None, ![t].ret = "ok"]
    /\ UNCHANGED << mainpc, initMsg, ioVars, nodeVars, running, fatal, exitErr,
                    histVars >>
    /\ UNCHANGED wlVars

\* What dropping the rpc future does to the table: the future owns msg, token
\* and rx; the sender stays in Node.pending_reply, which nothing else touches.
DropRpc(pr, tok) == pr

\* The caller of rpc gives up: the future is dropped at its .await (a
\* timeout or a select around it, a sibling future that failed), and with it
\* the receiver of the oneshot.
Cancel(t) ==
    /\ Sched
    /\ tasks[t].st = "rpc_wait"
    /\ LET env == Unwrap(tasks[t].env) IN
       pending_reply' = DropRpc(pending_reply, Token(env.dest, Unwrap(env.msg_id)))
    /\ tasks' = [tasks EXCEPT ![t].st = "cancelled", ![t].rx = None, ![t].ret = "ok"]
    /\ UNCHANGED << mainpc, initMsg, ioVars, msg_id, outq, enqLog,
                    allocLog, running, fatal, exitErr, histVars >>
    /\ UNCHANGED wlVars

\* A lookup that leaves the slot in the table.
RemoveKeep(pr, tok) == pr

\* DashMap::remove(&token) on the table.
Remove(pr, tok) == [k \in DOMAIN pr \ {tok} |-> pr[k]]

\* The receiver of a task's oneshot exists as long as its rpc future does.
RxAlive(task) == task.st /= "cancelled"

\* Node::ack(msg, val) as a function of the table and the tasks: the table
\* after it, the task the slot belonged to (hit, 0 for none), the task whose
\* oneshot got val (deliver, 0 for none) and what ack returns.
Ack(pr, tks, msg) ==
    IF msg.in_reply_to = None
    THEN [pending |-> pr, hit |-> 0, deliver |-> 0, ret |-> "Invalid Ok message"]
    ELSE LET token == Token(msg.src, Unwrap(msg.in_reply_to)) IN
         IF token \in DOMAIN pr
         THEN IF RxAlive(tks[pr[token]])
              THEN [pending |-> Remove(pr, token), hit |-> pr[token],
                    deliver |-> pr[token], ret |-> "ok"]
              ELSE [pending |-> Remove(pr, token), hit |-> pr[token],
                    deliver |-> 0, ret |-> "Failed to send ack"]
         ELSE [pending |-> pr, hit |-> 0, deliver |-> 0, ret |-> "ok"]

\* The handler of a reply: the workload passes it to Node::ack with its
\* payload (as handle_kv and handle_query_ok do) and returns what ack returns;
\* main_loop's task sends an Err on the fatal channel, and waits when that is
\* full.
HandleAck(t) ==
    /\ Sched
    /\ tasks[t].st = "spawned"
    /\ tasks[t].msg.payload.type = "ok"
    /\ LET m == tasks[t].msg
           a == Ack(pending_reply, tasks, m)
           failed == a.ret /= "ok"
           room == Len(fatal) < FatalCap
       IN  /\ pending_reply' = a.pending
           /\ tasks' = [i \in DOMAIN tasks |->
                 IF i = t
                 THEN [tasks[i] EXCEPT !.ret = a.ret,
                         !.st = IF failed /\ ~room THEN "fatal_wait" ELSE "done"]
                 ELSE IF i = a.deliver
                 THEN [tasks[i] EXCEPT !.rx = Some(m.payload.val)]
                 ELSE tasks[i]]
           /\ fatal' = IF failed /\ room THEN Append(fatal, a.ret) ELSE fatal
           /\ ackLog' = Append(ackLog,
                 [src |-> m.src, in_reply_to |-> m.in_reply_to,
                  val |-> m.payload.val, hit |-> a.hit, deliver |-> a.deliver,
                  ret |-> a.ret])
    /\ UNCHANGED << mainpc, initMsg, ioVars, msg_id, outq, enqLog,
                    allocLog, running, exitErr, retries >>
    /\ UNCHANGED wlVars

(* --------------------------------------------------------- specification *)
Next ==
    \/ NodeNew
    \/ NodeNewSpawn
    \/ ReaderRead
    \/ ReaderEOF
    \/ WriterWrite
    \/ MainRecv
    \/ MainEOF
    \/ MainFatal
    \/ \E t \in TaskIds : HandleOriginate(t)
    \/ \E t \in TaskIds : RpcRegister(t)
    \/ \E t \in TaskIds : RetryFire(t)
    \/ \E t \in TaskIds : RpcReturn(t)
    \/ \E t \in TaskIds : Cancel(t)
    \/ \E t \in TaskIds : HandleAck(t)

Spec == Init /\ [][Next]_vars

TypeOK ==
    /\ mainpc \in {"init", "init_written", "running", "exit_ok", "exit_err",
                  "aborted"}
    /\ readerpc \in {"off", "reading", "eof", "failed"}
    /\ Len(inq) <= ChanCap /\ Len(outq) <= ChanCap /\ Len(fatal) <= FatalCap
    /\ running \in {0} \cup TaskIds
    /\ \A tok \in DOMAIN pending_reply : pending_reply[tok] \in TaskIds

(* ---------------------------------------------------------------- claims *)
Range(q) == { q[i] : i \in 1 .. Len(q) }
Min(S) == CHOOSE x \in S : \A y \in S : x <= y
Count(q, e) == Cardinality({ i \in 1 .. Len(q) : q[i] = e })

\* The tasks that have originated an envelope, and those that did so by rpc.
Originators == { t \in TaskIds : IsSome(tasks[t].env) }
RpcTasks == { t \in Originators : tasks[t].msg.payload.type = "do_rpc" }
Env(t) == Unwrap(tasks[t].env)

\* The calls of ack made for replies of rpc t's peer to t's msg_id.
Matching(t) ==
    { i \in 1 .. Len(ackLog) :
        ackLog[i].src = Env(t).dest /\ ackLog[i].in_reply_to = Env(t).msg_id }

\* What the caller of rpc t has got: the value in its oneshot or the one rpc
\* returned.
Got(t) == IF IsSome(tasks[t].result) THEN tasks[t].result ELSE tasks[t].rx

\* C1: what an rpc call gets is the value of the first reply whose sender is
\* the peer it addressed and whose in_reply_to is the msg_id it allocated; ack
\* delivers to a call at most once, only for such a reply, and no later reply
\* delivers anything.
C1_RpcResultIsFirstMatchingReply ==
    /\ \A t \in RpcTasks :
         IsSome(Got(t)) =>
           /\ Matching(t) /= {}
           /\ ackLog[Min(Matching(t))].deliver = t
           /\ ackLog[Min(Matching(t))].val = Unwrap(Got(t))
    /\ \A i \in 1 .. Len(ackLog) :
         ackLog[i].deliver /= 0 =>
           /\ ackLog[i].deliver \in RpcTasks
           /\ i = Min(Matching(ackLog[i].deliver))
           /\ \A j \in 1 .. Len(ackLog) :
                j /= i => ackLog[j].deliver /= ackLog[i].deliver

\* C1's case: an rpc has returned the first reply's value after a second reply
\* for the same (peer, msg_id) was handled too.
C1_Witness ==
    \E t \in RpcTasks :
        /\ IsSome(tasks[t].result)
        /\ Cardinality(Matching(t)) >= 2

\* C2 (as claimed): the table holds an entry for (peer, msg_id) exactly when an
\* rpc to that peer with that msg_id has enqueued its request and has been
\* neither acked nor cancelled.
C2_SlotIffOutstanding ==
    \A t \in RpcTasks :
        LET token == Token(Env(t).dest, Unwrap(Env(t).msg_id))
            enqueued == Env(t) \in Range(enqLog)
            acked == \E i \in Matching(t) : ackLog[i].hit = t
            cancelled == tasks[t].st = "cancelled"
        IN  (token \in DOMAIN pending_reply /\ pending_reply[token] = t)
              <=> (enqueued /\ ~acked /\ ~cancelled)

\* C3: the msg_ids fetch_add hands out start at 1 and strictly increase, and
\* no two originated envelopes of the node share one.
C3_MsgIdsUniqueIncreasing ==
    /\ \A i \in 1 .. Len(allocLog) : \A j \in 1 .. Len(allocLog) :
         i < j => allocLog[i] < allocLog[j]
    /\ (allocLog /= << >> => allocLog[1] = 1)
    /\ \A t \in Originators :
         /\ IsSome(Env(t).msg_id)
         /\ Unwrap(Env(t).msg_id) \in Range(allocLog)
         /\ \A u \in Originators : u /= t => Env(u).msg_id /= Env(t).msg_id

\* C3's case: a reply, a send and an rpc have each been given a msg_id.
C3_Witness ==
    /\ Len(allocLog) = 3
    /\ { tasks[t].msg.payload.type : t \in Originators }
         = {"do_reply", "do_send", "do_rpc"}

\* C4: a firing of the retry timer enqueues the envelope the waiting rpc sent
\* first, unchanged, and allocates no msg_id; a waiting rpc can always retry
\* (up to the model's bound); an rpc that is over enqueues nothing more.
C4_RetryStep ==
    /\ retries' /= retries =>
         /\ \E t \in RpcTasks :
              /\ tasks[t].st = "rpc_wait"
              /\ enqLog' = Append(enqLog, Env(t))
              /\ Env(t) = enqLog[Min({ i \in 1 .. Len(enqLog) :
                                        enqLog[i].msg_id = Env(t).msg_id })]
              /\ Env(t).in_reply_to = None
         /\ msg_id' = msg_id
         /\ allocLog' = allocLog
    /\ \A t \in RpcTasks :
         tasks[t].st \in {"done", "cancelled"} =>
           Count(enqLog', Env(t)) = Count(enqLog, Env(t))

C4_RetryEnabled ==
    \A t \in RpcTasks :
        (tasks[t].st = "rpc_wait" /\ Sched /\ retries < MaxRetries)
          => ENABLED RetryFire(t)

C4_RetriesResendSameEnvelope == [] C4_RetryEnabled /\ [][C4_RetryStep]_vars

\* C4's case: an rpc was retried twice, then got its reply and returned.
C4_Witness ==
    \E t \in RpcTasks :
        /\ tasks[t].st = "done"
        /\ IsSome(tasks[t].result)
        /\ Count(enqLog, Env(t)) = 3

\* C5 (as claimed): an ack that arrives for an rpc after its caller was
\* cancelled (it did not deliver) finds no slot and returns Ok, and no such
\* failure reaches the fatal channel or ends the main loop.
C5_LateAckIsNoop ==
    /\ \A t \in RpcTasks : \A i \in Matching(t) :
         (tasks[t].st = "cancelled" /\ ackLog[i].deliver /= t)
           => (ackLog[i].hit = 0 /\ ackLog[i].ret = "ok")
    /\ "Failed to send ack" \notin Range(fatal)
    /\ exitErr /= Some("Failed to send ack")

\* The replies the node has been handed so far (handled or not).
AckInputs ==
    { tasks[t].msg : t \in { u \in TaskIds : tasks[u].msg.payload.type = "ok" } }

\* The tasks after ack has delivered m's payload to task d (0: to none).
Delivered(tks, d, m) ==
    [i \in DOMAIN tks |->
        IF i = d THEN [tks[i] EXCEPT !.rx = Some(m.payload.val)] ELSE tks[i]]

\* C6: ack of a reply that carries an in_reply_to and has no slot returns Ok
\* and changes neither the table nor any task's oneshot or result nor the
\* fatal channel; a second ack of the same reply always is such a no-op.
C6_AckState ==
    /\ \A m \in AckInputs :
         IsSome(m.in_reply_to) =>
           LET a1 == Ack(pending_reply, tasks, m)
               a2 == Ack(a1.pending, Delivered(tasks, a1.deliver, m), m)
           IN  /\ Token(m.src, Unwrap(m.in_reply_to)) \notin DOMAIN pending_reply
                    => (a1.ret = "ok" /\ a1.pending = pending_reply /\ a1.deliver = 0)
               /\ a2.ret = "ok" /\ a2.pending = a1.pending /\ a2.deliver = 0
    /\ \A i \in 1 .. Len(ackLog) :
         (ackLog[i].hit = 0 /\ IsSome(ackLog[i].in_reply_to))
           => (ackLog[i].ret = "ok" /\ ackLog[i].deliver = 0)

C6_AckStep ==
    (/\ Len(ackLog') = Len(ackLog) + 1
     /\ ackLog'[Len(ackLog')].hit = 0
     /\ IsSome(ackLog'[Len(ackLog')].in_reply_to))
      => /\ pending_reply' = pending_reply
         /\ fatal' = fatal
         /\ \A t \in TaskIds :
              tasks'[t].rx = tasks[t].rx /\ tasks'[t].result = tasks[t].result

C6_AckWithoutSlotIsNoop == [] C6_AckState /\ [][C6_AckStep]_vars

\* C6's case: a reply was acked and delivered, and the same reply came and
\* was acked again.
C6_Witness ==
    \E i \in 1 .. Len(ackLog) : \E j \in 1 .. Len(ackLog) :
        /\ i < j
        /\ ackLog[i].src = ackLog[j].src
        /\ ackLog[i].in_reply_to = ackLog[j].in_reply_to
        /\ ackLog[i].deliver /= 0
        /\ ackLog[j].hit = 0

\* C7: a reply built by Node::reply answers the request it was built for
\* (in_reply_to is the request's msg_id, src and dest are swapped) and has a
\* msg_id of its own that no other originated envelope has; Message::reply
\* builds the same envelope around the msg_id it is given.
C7_ReplyAnswersRequest ==
    \A t \in TaskIds :
        LET m == tasks[t].msg IN
        /\ (t \in Originators /\ m.payload.type = "do_reply") =>
             /\ Env(t).in_reply_to = m.msg_id
             /\ Env(t).src = m.dest
             /\ Env(t).dest = m.src
             /\ IsSome(Env(t).msg_id)
             /\ Unwrap(Env(t).msg_id) \in Range(allocLog)
             /\ \A u \in Originators : u /= t => Env(u).msg_id /= Env(t).msg_id
        /\ \A id \in {None, Some(msg_id)} :
             LET r == MessageReply(m, id, Payload("reply_ok", "")) IN
             /\ r.in_reply_to = m.msg_id
             /\ r.src = m.dest
             /\ r.dest = m.src
             /\ r.msg_id = id

\* C7's case: the reply to a request that carries a msg_id is on stdout.
C7_Witness ==
    \E t \in Originators :
        /\ tasks[t].msg.payload.type = "do_reply"
        /\ IsSome(tasks[t].msg.msg_id)
        /\ Env(t) \in Range(written)

\* C8: stdout holds init_ok and then the envelopes that entered the outbound
\* queue, in the order they entered it; those not yet written are the queue,
\* and the writer can always take the next one.
C8_StdoutIsQueueOrder ==
    mainpc \in {"running", "exit_ok", "exit_err"} =>
        /\ Len(written) >= 1
        /\ SubSeq(written, 2, Len(written)) \o outq = enqLog
        /\ (outq /= << >> => ENABLED WriterWrite)

\* C8's case: the envelopes of three handlers or retries, two of them the same
\* request, are all on stdout.
C8_Witness ==
    /\ Len(written) >= 4
    /\ outq = << >>
    /\ Cardinality(Range(written)) >= 3
    /\ \E i \in 2 .. Len(written) : \E j \in 2 .. Len(written) :
         i < j /\ written[i] = written[j] /\ written[j - 1] /= written[j]

\* C9: once anything else has happened (a worker runs, a message is queued,
\* a task exists), the first line on stdout is the init_ok for the init
\* request: no msg_id, in_reply_to the request's msg_id, src and dest
\* swapped; and no other line is an init_ok.
C9_InitOkFirst ==
    /\ (writerOn \/ readerpc /= "off" \/ mainpc \in {"init_written", "running", "exit_ok", "exit_err"}
          \/ inq /= << >> \/ outq /= << >> \/ tasks /= << >> \/ written /= << >>)
         => /\ IsSome(initMsg)
            /\ Len(written) >= 1
            /\ written[1].payload.type = "init_ok"
            /\ written[1].msg_id = None
            /\ written[1].in_reply_to = Unwrap(initMsg).msg_id
            /\ written[1].src = Unwrap(initMsg).dest
            /\ written[1].dest = Unwrap(initMsg).src
    /\ \A i \in 2 .. Len(written) : written[i].payload.type /= "init_ok"
    /\ mainpc = "aborted" => (written = << >> /\ ~writerOn /\ readerpc = "off")

\* C9's case: init_ok for an init request with a msg_id is written and the
\* workers have not started yet.
C9_Witness ==
    /\ mainpc = "init_written"
    /\ ~writerOn /\ readerpc = "off"
    /\ IsSome(Unwrap(initMsg).msg_id)
    /\ Len(written) = 1

\* C10 (as claimed): after a line that does not parse the reader still reads,
\* or has ended at EOF, and the main loop ends only at EOF.
C10_BadLineIsSkipped ==
    skipped =>
        /\ readerpc \in {"reading", "eof"}
        /\ (mainpc = "exit_ok" => readerpc = "eof")

(* ------------------------------------------------------ the echo workload *)
\* src/bin/echo.rs.  Its main is the loop of lib.rs main_loop written out
\* (recv: spawn a handler; None: break; an error on c_rx: return it), on the
\* same runtime and workers, so MainRecv, MainEOF and MainFatal are its steps.

\* The echo field of the harness's k-th line.
EchoVal(k) == "hi" \o ToString(k)

\* What the harness may write as the k-th line: an echo request, a message
\* whose payload is no variant of the workload's Request, or text that is no
\* envelope.
EchoStdin(k) ==
    { Line(TRUE, Message(Client, NodeId, Some(ClientMsgId(k)), None,
                         Payload("echo", EchoVal(k)))),
      Line(TRUE, Message(Client, NodeId, Some(ClientMsgId(k)), None,
                         Payload("bogus", ""))) }
    \cup GarbageLines

\* Request::de(&msg.body.payload): Some(echo) for Request::Echo { echo }, None
\* for a payload that is no variant of Request (de returns Err).
RequestDe(payload) ==
    IF payload.type = "echo" THEN Some(payload.val) ELSE None

\* The stdin worker (io.rs stdin) fed by the echo harness.
EchoRead ==
    /\ readerpc = "reading"
    /\ mainpc = "running"
    /\ nread < MaxLines
    /\ Len(inq) < ChanCap
    /\ \E line \in EchoStdin(nread + 1) :
         LET r == StdinStep(line) IN
         /\ readerpc' = r.pc
         /\ inq' = IF IsSome(r.put) THEN Append(inq, Unwrap(r.put)) ELSE inq
         /\ skipped' = (skipped \/ Parse(line) = None)
    /\ nread' = nread + 1
    /\ UNCHANGED << mainpc, initMsg, writerOn, written, tasks, running, fatal,
                    exitErr, nodeVars, histVars >>
    /\ UNCHANGED wlVars

\* echo.rs handle_msg in its spawned task: decode the payload; reply echo_ok
\* with the same echo; a payload that does not decode makes the handler return
\* Err, which the task sends on the fatal channel (it waits when that is full).
HandleMsgEcho(t) ==
    /\ Sched
    /\ tasks[t].st = "spawned"
    /\ LET m == tasks[t].msg
           req == RequestDe(m.payload)
           room == Len(fatal) < FatalCap
       IN  IF IsSome(req)
           THEN /\ CanSend
                /\ LET env == ReplyMsg(m, Payload("echo_ok", Unwrap(req)), msg_id) IN
                   /\ msg_id' = FetchAdd(msg_id)
                   /\ allocLog' = Append(allocLog, msg_id)
                   /\ outq' = Append(outq, env)
                   /\ enqLog' = Append(enqLog, env)
                   /\ tasks' = [tasks EXCEPT ![t].env = Some(env), ![t].st = "done",
                                             ![t].ret = "ok"]
                /\ UNCHANGED fatal
           ELSE /\ tasks' = [tasks EXCEPT ![t].ret = "Failed to deserialize",
                                ![t].st = IF room THEN "done" ELSE "fatal_wait"]
                /\ fatal' = IF room THEN Append(fatal, "Failed to deserialize") ELSE fatal
                /\ UNCHANGED << msg_id, allocLog, outq, enqLog >>
    /\ UNCHANGED << mainpc, initMsg, ioVars, pending_reply, running, exitErr,
                    histVars >>
    /\ UNCHANGED wlVars

NextEcho ==
    \/ NodeNew
    \/ NodeNewSpawn
    \/ EchoRead
    \/ ReaderEOF
    \/ WriterWrite
    \/ MainRecv
    \/ MainEOF
    \/ MainFatal
    \/ \E t \in TaskIds : HandleMsgEcho(t)

SpecEcho == Init /\ [][NextEcho]_vars

\* The handlers that have returned an error.
Failed == { t \in TaskIds : tasks[t].ret \notin {"", "ok"} }

\* C11 (as claimed): a message whose payload is no variant of the workload's
\* request type is dropped and nothing more: no error reaches the fatal
\* channel and the main loop does not end with an error.
C11_BadPayloadIsPerMessage ==
    /\ fatal = << >>
    /\ mainpc /= "exit_err"
    /\ \A t \in TaskIds : tasks[t].st /= "fatal_wait"

\* C12 (as claimed): a run in which a handler has returned an error does not
\* end with the clean-EOF result when stdin reaches EOF, and the error the
\* main loop returns is one a handler returned.
C12_FailedRunEndsWithError ==
    /\ (mainpc = "exit_ok" /\ readerpc = "eof") => Failed = { }
    /\ mainpc = "exit_err" => \E t \in Failed : exitErr = Some(tasks[t].ret)

\* C13 (as claimed): when stdin was read to EOF, the node has ended and the writer has drained
\* the outbound queue, every echo request read has exactly one echo_ok on
\* stdout, with the request's msg_id as in_reply_to and the request's echo.
C13_EveryEchoAnswered ==
    (mainpc = "exit_ok" /\ readerpc = "eof" /\ outq = << >>) =>
        \A t \in TaskIds :
            tasks[t].msg.payload.type = "echo" =>
                Cardinality({ i \in 1 .. Len(written) :
                    /\ written[i].payload = Payload("echo_ok", tasks[t].msg.payload.val)
                    /\ written[i].in_reply_to = tasks[t].msg.msg_id
                    /\ written[i].dest = tasks[t].msg.src }) = 1

(* ------------------------------------------------- the unique-id workload *)
\* src/bin/unique-id.rs on the nodes of a cluster.  Every node runs its
\* handlers on one scheduler thread (flavor = "current_thread"): a handler is
\* polled from its start to the .await of out_chan.send inside Node::reply,
\* which comes after the load and after the fetch_add, so the two are one step.

\* generate requests a node is sent.
MaxGen == 3

\* An id without the node's name.
GenIdCounterOnly(node, c) == ToString(c)

\* format!("{}-{}", node.id, node.msg_id.load(Relaxed))
GenId(node, c) == node \o "-" \o ToString(c)

\* main: a generate request arrives at node n and a handler task is spawned.
UidSpawn(n) ==
    /\ Len(uidTasks[n]) < MaxGen
    /\ uidTasks' = [uidTasks EXCEPT ![n] =
          Append(@, [req |-> ClientMsgId(Len(@) + 1), st |-> "spawned"])]
    /\ UNCHANGED << uidCtr, uidOut, rtVars, kvVars, faVars, bVars, xVars >>

\* handle_msg, Payload::Generate: build the id from the counter, then
\* Node::reply, which takes the counter's value as msg_id and advances it.
UidHandle(n, t) ==
    /\ uidTasks[n][t].st = "spawned"
    /\ LET c == uidCtr[n]
           id == GenId(n, c)
       IN  /\ uidOut' = uidOut \cup
                { [node |-> n, ctr |-> c, id |-> id, msg_id |-> uidCtr[n],
                   in_reply_to |-> uidTasks[n][t].req] }
           /\ uidCtr' = [uidCtr EXCEPT ![n] = FetchAdd(@)]
    /\ uidTasks' = [uidTasks EXCEPT ![n][t].st = "done"]
    /\ UNCHANGED << rtVars, kvVars, faVars, bVars, xVars >>

NextUid ==
    \/ \E n \in UidNodes : UidSpawn(n)
    \/ \E n \in UidNodes : \E t \in 1 .. Len(uidTasks[n]) : UidHandle(n, t)

SpecUid == Init /\ [][NextUid]_vars

\* C14: no two generate_ok replies of the cluster carry the same id, and each
\* id is <node_id>-<n>, n the value the node's counter had when the request
\* was handled (which is also the reply's msg_id).
C14_IdsUnique ==
    /\ \A r1 \in uidOut : \A r2 \in uidOut :
         r1.id = r2.id => r1 = r2
    /\ \A r \in uidOut :
         /\ r.id = r.node \o "-" \o ToString(r.ctr)
         /\ r.msg_id = r.ctr
    /\ \A n \in UidNodes :
         Cardinality({ r \in uidOut : r.node = n })
           = Cardinality({ t \in 1 .. Len(uidTasks[n]) : uidTasks[n][t].st = "done" })

\* C14's case: both nodes have answered, each two requests that were pending
\* at the same time and were handled out of arrival order; the two nodes have
\* used the same counter values.
C14_Witness ==
    /\ \A n \in UidNodes :
         \E r1 \in uidOut : \E r2 \in uidOut :
            /\ r1.node = n /\ r2.node = n
            /\ r1.in_reply_to < r2.in_reply_to
            /\ r1.ctr > r2.ctr
    /\ \E r1 \in uidOut : \E r2 \in uidOut :
         r1.node /= r2.node /\ r1.ctr = r2.ctr

(* ------------------------------------------------------- the KV operations *)
\* service.rs: one call of kv_read, kv_write or kv_cas, the reply of the
\* service routed through handle_kv and Node::ack to the caller's rpc.

\* Result<T, E>
Ok(v) == [ok |-> TRUE, val |-> v]
Err(e) == [ok |-> FALSE, err |-> e]

\* enum RpcError
KeyNotFound == [kind |-> "KeyNotFound", code |-> 20, text |-> ""]
CasFailed(text) == [kind |-> "CasFailed", code |-> 22, text |-> text]
Unknown(code, text) == [kind |-> "Unknown", code |-> code, text |-> text]

\* json!(null)
Null == "null"

\* What the service may answer (enum KvResponse; code is a u8).
KvValues == {"v0", "v1", "v2"}
KvCodes == {0, 20, 21, 22, 30, 255}
KvTexts == {"t1", "t2"}
KvResponses ==
    { [type |-> "read_ok", value |-> v, code |-> 0, text |-> ""] : v \in KvValues }
    \cup { [type |-> t, value |-> "", code |-> 0, text |-> ""] : t \in {"write_ok", "cas_ok"} }
    \cup { [type |-> "error", value |-> "", code |-> c, text |-> x]
             : c \in KvCodes, x \in KvTexts }

\* A translation that takes every error for a missing key.
HandleKvAllNotFound(resp) ==
    CASE resp.type = "read_ok" -> Ok(resp.value)
      [] resp.type \in {"write_ok", "cas_ok"} -> Ok(Null)
      [] resp.type = "error" -> Err(KeyNotFound)

\* Node::handle_kv: the Result it passes to Node::ack.
HandleKv(resp) ==
    CASE resp.type = "read_ok" -> Ok(resp.value)
      [] resp.type = "write_ok" -> Ok(Null)
      [] resp.type = "cas_ok" -> Ok(Null)
      [] resp.type = "error" ->
           IF resp.code = 20 THEN Err(KeyNotFound)
           ELSE IF resp.code = 22 THEN Err(CasFailed(resp.text))
           ELSE Err(Unknown(resp.code, resp.text))

\* NodeError::new_with("Unexpected response from seq-kv", e)
Unexpected(e) == [reason |-> "Unexpected response from seq-kv", source |-> e]

\* Node::kv_read applied to what rpc returned.
KvRead(res) ==
    IF res.ok THEN Ok(Some(res.val))
    ELSE IF res.err.kind = "KeyNotFound" THEN Ok(None)
    ELSE Err(Unexpected(res.err))

\* Node::kv_write applied to what rpc returned.
KvWrite(res) ==
    IF res.ok THEN Ok("unit") ELSE Err(Unexpected(res.err))

\* A kv_cas that takes every reply for a success.
KvCasAlwaysTrue(res) == Ok(TRUE)

\* Node::kv_cas applied to what rpc returned.
KvCas(res) ==
    IF res.ok THEN Ok(TRUE)
    ELSE IF res.err.kind = "CasFailed" THEN Ok(FALSE)
    ELSE Err(Unexpected(res.err))

\* A handler calls one of the three operations: its rpc is sent.
KvCall(op) ==
    /\ kvOp = ""
    /\ kvOp' = op
    /\ UNCHANGED << kvResp, kvAck, kvRet, uidVars, rtVars, faVars, bVars, xVars >>

\* The service's reply arrives and the workload hands it to handle_kv, which
\* acks the rpc with the translated Result.
KvReply(resp) ==
    /\ kvOp /= "" /\ kvResp = None
    /\ kvResp' = Some(resp)
    /\ kvAck' = Some(HandleKv(resp))
    /\ UNCHANGED << kvOp, kvRet, uidVars, rtVars, faVars, bVars, xVars >>

\* rpc returns the Result to the operation, which returns.
KvReturn ==
    /\ IsSome(kvAck) /\ kvRet = None
    /\ kvRet' = Some(CASE kvOp = "read" -> KvRead(Unwrap(kvAck))
                       [] kvOp = "write" -> KvWrite(Unwrap(kvAck))
                       [] kvOp = "cas" -> KvCas(Unwrap(kvAck)))
    /\ UNCHANGED << kvOp, kvResp, kvAck, uidVars, rtVars, faVars, bVars, xVars >>

NextKv ==
    \/ \E op \in {"read", "write", "cas"} : KvCall(op)
    \/ \E resp \in KvResponses : KvReply(resp)
    \/ KvReturn

SpecKv == Init /\ [][NextKv]_vars

\* C15: kv_read gives None exactly for error code 20 and Some(value) for
\* read_ok{value}; kv_cas gives true for cas_ok and false exactly for error
\* code 22; kv_write succeeds for write_ok; for any other error code each
\* operation returns an error; and the codes are translated 20 to
\* KeyNotFound, 22 to CasFailed(text), any other to Unknown(code, text).
C15_KvResults ==
    IsSome(kvRet) =>
        LET resp == Unwrap(kvResp)
            ret == Unwrap(kvRet)
            ack == Unwrap(kvAck)
            isErr(c) == resp.type = "error" /\ resp.code = c
        IN  /\ kvOp = "read" =>
                 /\ (ret.ok /\ ret.val = None) <=> isErr(20)
                 /\ resp.type = "read_ok" => (ret.ok /\ ret.val = Some(resp.value))
            /\ kvOp = "cas" =>
                 /\ resp.type = "cas_ok" => (ret.ok /\ ret.val = TRUE)
                 /\ (ret.ok /\ ret.val = FALSE) <=> isErr(22)
            /\ kvOp = "write" =>
                 /\ resp.type = "write_ok" => ret.ok
                 /\ resp.type = "error" => ~ret.ok
            /\ (resp.type = "error" /\ resp.code \notin {20, 22}) =>
                 /\ ~ret.ok
                 /\ ret.err.source = [kind |-> "Unknown", code |-> resp.code,
                                      text |-> resp.text]
            /\ isErr(20) => (~ack.ok /\ ack.err.kind = "KeyNotFound")
            /\ isErr(22) => (~ack.ok /\ ack.err.kind = "CasFailed"
                              /\ ack.err.text = resp.text)

\* C15's case: a kv_cas has returned for a reply with a code that is neither
\* 20 nor 22.
C15_Witness ==
    /\ kvOp = "cas"
    /\ IsSome(kvRet)
    /\ Unwrap(kvResp).type = "error"
    /\ Unwrap(kvResp).code = 21

(* ------------------------------------------------------------ kv_fetch_and *)
\* service.rs kv_fetch_and on one node, with the KV service that holds the
\* key, the other writers of the key, and the network between node and
\* service, which delivers every message but in no fixed order.  Every rpc of
\* the call re-sends its request when the retry timer fires before a reply
\* (node.rs rpc), so the service may get the same request more than once and
\* answers each copy; the node takes the first reply that arrives and drops
\* the others (Node::ack finds no slot).

\* The values of the key are 0 .. ValMod - 1.
ValMod == 3
\* Copies of one request an rpc sends (the first and its retries).
MaxCopies == 2

\* T::default()
Default == 0
\* func(&mut val): the update the caller passes, here an increment.
Func(v) == (v + 1) % ValMod

\* enum KvRequest, as kv_read and kv_cas build it (create_if_not_exists is
\* always Some(true)); `from` is kv_val, null when the key was not found.
ReadReq == [type |-> "read", from |-> None, to |-> 0]
CasReq(from, to) == [type |-> "cas", from |-> from, to |-> to]

Resp(type, value, code, text) ==
    [type |-> type, value |-> value, code |-> code, text |-> text]

\* The KV service (lin-kv / seq-kv) serving one request on the key: the value
\* it holds afterwards and its reply.
KvService(store, req) ==
    IF req.type = "read"
    THEN IF store = None
         THEN [store |-> store, resp |-> Resp("error", 0, 20, "key does not exist")]
         ELSE [store |-> store, resp |-> Resp("read_ok", Unwrap(store), 0, "")]
    ELSE IF store = None \/ store = req.from
         THEN [store |-> Some(req.to), resp |-> Resp("cas_ok", 0, 0, "")]
         ELSE [store |-> store, resp |-> Resp("error", 0, 22, "precondition failed")]

\* kv_fetch_and from the .await at pc, resumed with the reply resp of its rpc:
\* where it suspends next (or returns), kv_val, val, and the request it sends.
FetchAndStep(pc, kv, val, resp) ==
    LET res == HandleKv(resp)
        stop(to) == [pc |-> to, kv |-> kv, val |-> val, req |-> None]
        cas(k, v) == [pc |-> "cas", kv |-> k, val |-> v, req |-> Some(CasReq(k, v))]
    IN  CASE pc = "read1" ->
               LET r == KvRead(res) IN
               IF ~r.ok THEN stop("err")
               ELSE cas(r.val, Func(IF r.val = None THEN Default ELSE Unwrap(r.val)))
          [] pc = "cas" ->
               LET r == KvCas(res) IN
               IF ~r.ok THEN stop("err")
               ELSE IF r.val THEN stop("done")
               ELSE [pc |-> "read2", kv |-> kv, val |-> val, req |-> Some(ReadReq)]
          [] pc = "read2" ->
               LET r == KvRead(res) IN
               IF ~r.ok \/ r.val = None THEN stop("err")
               ELSE cas(r.val, Func(Unwrap(r.val)))

\* The unserved copies of the request of an rpc that has returned: a CAS
\* among them can still change the key (a read cannot).
Leftover ==
    IF IsSome(faReq) /\ Unwrap(faReq).type = "cas" /\ faCopies > 0
    THEN {Unwrap(faReq)} ELSE { }

\* kv_fetch_and is called: its first kv_read sends its request.
FaStart ==
    /\ faPc = "idle"
    /\ faPc' = "read1"
    /\ faReq' = Some(ReadReq)
    /\ faSent' = 1 /\ faCopies' = 1
    /\ UNCHANGED << kvStore, wLeft, faKv, faVal, faReplies, faStale >>
    /\ UNCHANGED << rtVars, uidVars, kvVars, bVars, xVars >>

\* Node::rpc, the sleep branch: the reply has not come yet and the request is
\* sent again.
FaRetry ==
    /\ faPc \in {"read1", "cas", "read2"}
    /\ faSent < MaxCopies
    /\ faSent' = faSent + 1
    /\ faCopies' = faCopies + 1
    /\ UNCHANGED << kvStore, wLeft, faPc, faKv, faVal, faReq, faReplies, faStale >>
    /\ UNCHANGED << rtVars, uidVars, kvVars, bVars, xVars >>

\* The service serves one copy of the request and answers it.
KvServe ==
    /\ faCopies > 0
    /\ LET a == KvService(kvStore, Unwrap(faReq)) IN
       /\ kvStore' = a.store
       /\ faReplies' = faReplies \cup {a.resp}
    /\ faCopies' = faCopies - 1
    /\ UNCHANGED << wLeft, faPc, faKv, faVal, faReq, faSent, faStale >>
    /\ UNCHANGED << rtVars, uidVars, kvVars, bVars, xVars >>

\* The service serves a copy of a CAS whose rpc has returned already; the
\* node drops its reply.
KvServeStale(req) ==
    /\ req \in faStale
    /\ kvStore' = KvService(kvStore, req).store
    /\ faStale' = faStale \ {req}
    /\ UNCHANGED << wLeft, faPc, faKv, faVal, faReq, faSent, faCopies, faReplies >>
    /\ UNCHANGED << rtVars, uidVars, kvVars, bVars, xVars >>

\* A reply reaches the node: handle_kv acks the rpc with it, the rpc returns
\* and kv_fetch_and runs to its next rpc or to its return.  The other replies
\* to the same request find no slot.
FaDeliver(resp) ==
    /\ faPc \in {"read1", "cas", "read2"}
    /\ resp \in faReplies
    /\ LET n == FetchAndStep(faPc, faKv, faVal, resp) IN
       /\ faPc' = n.pc
       /\ faKv' = n.kv
       /\ faVal' = n.val
       /\ faReq' = n.req
       /\ faSent' = IF IsSome(n.req) THEN 1 ELSE 0
       /\ faCopies' = IF IsSome(n.req) THEN 1 ELSE 0
    /\ faReplies' = { }
    /\ faStale' = faStale \cup Leftover
    /\ UNCHANGED << kvStore, wLeft >>
    /\ UNCHANGED << rtVars, uidVars, kvVars, bVars, xVars >>

\* Another writer of the key writes it.
OtherWrite(v) ==
    /\ wLeft > 0
    /\ wLeft' = wLeft - 1
    /\ kvStore' = Some(v)
    /\ UNCHANGED << faPc, faKv, faVal, faReq, faSent, faCopies, faReplies, faStale >>
    /\ UNCHANGED << rtVars, uidVars, kvVars, bVars, xVars >>

NextFetch ==
    \/ FaStart
    \/ FaRetry
    \/ KvServe
    \/ \E req \in faStale : KvServeStale(req)
    \/ \E resp \in faReplies : FaDeliver(resp)
    \/ \E v \in 0 .. ValMod - 1 : OtherWrite(v)

\* Fair scheduling, and a service and a network that serve and deliver what
\* they hold; the retry timer and the other writers need not act.
FairSpecFetch ==
    /\ Init /\ [][NextFetch]_vars
    /\ WF_vars(FaStart)
    /\ WF_vars(KvServe)
    /\ WF_vars(\E req \in faStale : KvServeStale(req))
    /\ WF_vars(\E resp \in faReplies : FaDeliver(resp))

\* C16 (as claimed): every call of kv_fetch_and returns.
C16_FetchAndReturns == <>(faPc \in {"done", "err"})

(* -------------------------------------------------- the broadcast workload *)
\* src/bin/broadcast.rs on the nodes of a cluster, with the clients and the
\* network between the nodes.  A handler runs from its start to the .await
\* of its reply in one poll, so each is one step; the batch-sending task is a
\* step per round and per reply it awaits.  The network delivers every
\* request once (an rpc's re-sent copies would only union the same batch
\* again) and in no fixed order.

\* message: u32
BVals == {1, 2}

\* The clusters the harness may start: one node, or two.
Clusters == {{"n1"}, {"n1", "n2"}}

\* The members of a set of nodes as a Vec, in the order of their names.
VecOf(S) == SelectSeq(<< "n1", "n2", "n3" >>, LAMBDA x : x \in S)

\* The topology request the harness sends to the nodes of a cluster: every
\* node's neighbours are the other nodes.
TopologyOf(ns) == [n \in ns |-> VecOf(ns \ {n})]

\* A union that keeps only the batch.
BatchOnly(batch, mm) == batch

\* `batch | &mm`: the union of two SetU32.
BatchUnion(batch, mm) == batch \cup mm

Batch(src, dst, messages) ==
    [type |-> "broadcast_batch", src |-> src, dst |-> dst, messages |-> messages]
BatchOk(src, dst) ==
    [type |-> "broadcast_batch_ok", src |-> src, dst |-> dst, messages |-> { }]

\* A round that calls only the last of the peers it has to call.
NextCallLastOnly(n, pending, todo) ==
    IF todo = << >>
    THEN [fl |-> Asleep, out |-> { }]
    ELSE [fl |-> [pending |-> pending, todo |-> << >>, wait |-> todo[Len(todo)]],
          out |-> {Batch(n, todo[Len(todo)], pending)}]

\* handle_batch_sending, `for peer in peers`: the task before its next rpc,
\* with the request that rpc sends (none when no peer is left).
NextCall(n, pending, todo) ==
    IF todo = << >>
    THEN [fl |-> Asleep, out |-> { }]
    ELSE [fl |-> [pending |-> pending, todo |-> Tail(todo), wait |-> Head(todo)],
          out |-> {Batch(n, Head(todo), pending)}]

\* Node::new on every node of the cluster the harness starts.
BInit(ns) ==
    /\ bNodes = { }
    /\ bNodes' = ns
    /\ UNCHANGED << bTopo, bPeers, bMessages, bBuffer, bFl, bNet, bLeft,
                    bAcked, bRead >>
    /\ UNCHANGED << rtVars, uidVars, kvVars, faVars, xVars >>

\* handle_topology: the node takes its own entry of the map as its peers.
BTopology(n) ==
    /\ n \in bNodes
    /\ ~bTopo[n]
    /\ bTopo' = [bTopo EXCEPT ![n] = TRUE]
    /\ bPeers' = [bPeers EXCEPT ![n] = TopologyOf(bNodes)[n]]
    /\ UNCHANGED << bNodes, bMessages, bBuffer, bFl, bNet, bLeft, bAcked, bRead >>
    /\ UNCHANGED << rtVars, uidVars, kvVars, faVars, xVars >>

\* handle_broadcast: buffer.write().insert(message), then reply broadcast_ok.
\* The harness sends a node broadcasts after its topology.
BBroadcast(n, m) ==
    /\ n \in bNodes
    /\ bTopo[n]
    /\ bLeft > 0
    /\ bLeft' = bLeft - 1
    /\ bBuffer' = [bBuffer EXCEPT ![n] = @ \cup {m}]
    /\ bAcked' = [bAcked EXCEPT ![n] = @ \cup {m}]
    /\ UNCHANGED << bNodes, bTopo, bPeers, bMessages, bFl, bNet, bRead >>
    /\ UNCHANGED << rtVars, uidVars, kvVars, faVars, xVars >>

\* handle_read: reply read_ok with a clone of messages.
BReadOk(n) == bMessages[n]

BRead(n) ==
    /\ n \in bNodes
    /\ bRead' = [bRead EXCEPT ![n] = Some([messages |-> BReadOk(n), after |-> bAcked[n]])]
    /\ UNCHANGED << bNodes, bTopo, bPeers, bMessages, bBuffer, bFl, bNet, bLeft,
                    bAcked >>
    /\ UNCHANGED << rtVars, uidVars, kvVars, faVars, xVars >>

\* handle_batch_sending, one round after the sleep: take the buffer; when it
\* is not empty, call the peers one after the other with it.
BFlush(n) ==
    /\ n \in bNodes
    /\ bFl[n] = Asleep
    /\ bBuffer[n] /= { }
    /\ bBuffer' = [bBuffer EXCEPT ![n] = { }]
    /\ LET c == NextCall(n, bBuffer[n], bPeers[n]) IN
       /\ bFl' = [bFl EXCEPT ![n] = c.fl]
       /\ bNet' = bNet \cup c.out
    /\ UNCHANGED << bNodes, bTopo, bPeers, bMessages, bLeft, bAcked, bRead >>
    /\ UNCHANGED << rtVars, uidVars, kvVars, faVars, xVars >>

\* handle_broadcast_batch: union the batch into messages and into buffer,
\* then reply broadcast_batch_ok.
BBatch(msg) ==
    /\ msg \in bNet
    /\ msg.type = "broadcast_batch"
    /\ bMessages' = [bMessages EXCEPT ![msg.dst] = BatchUnion(msg.messages, @)]
    /\ bBuffer' = [bBuffer EXCEPT ![msg.dst] = BatchUnion(msg.messages, @)]
    /\ bNet' = (bNet \ {msg}) \cup {BatchOk(msg.dst, msg.src)}
    /\ UNCHANGED << bNodes, bTopo, bPeers, bFl, bLeft, bAcked, bRead >>
    /\ UNCHANGED << rtVars, uidVars, kvVars, faVars, xVars >>

\* handle_broadcast_batch_ok: Node::ack wakes the rpc of the batch-sending
\* task, which goes on to its next peer or to sleep.
BBatchOk(msg) ==
    /\ msg \in bNet
    /\ msg.type = "broadcast_batch_ok"
    /\ LET n == msg.dst
           c == NextCall(n, bFl[n].pending, bFl[n].todo)
       IN  IF bFl[n].wait = msg.src
           THEN /\ bFl' = [bFl EXCEPT ![n] = c.fl]
                /\ bNet' = (bNet \ {msg}) \cup c.out
           ELSE /\ bNet' = bNet \ {msg}
                /\ UNCHANGED bFl
    /\ UNCHANGED << bNodes, bTopo, bPeers, bMessages, bBuffer, bLeft, bAcked, bRead >>
    /\ UNCHANGED << rtVars, uidVars, kvVars, faVars, xVars >>

NextBcast ==
    \/ \E ns \in Clusters : BInit(ns)
    \/ \E n \in AllB : BTopology(n)
    \/ \E n \in AllB : \E m \in BVals : BBroadcast(n, m)
    \/ \E n \in AllB : BRead(n)
    \/ \E n \in AllB : BFlush(n)
    \/ \E msg \in bNet : BBatch(msg)
    \/ \E msg \in bNet : BBatchOk(msg)

\* Every node's batch-sending task wakes again and again, every node handles
\* its topology request and every message between nodes is delivered; the
\* clients need not send anything.
FairSpecBcast ==
    /\ Init /\ [][NextBcast]_vars
    /\ \A n \in AllB : WF_vars(BTopology(n))
    /\ \A n \in AllB : WF_vars(BFlush(n))
    /\ \A n \in AllB : WF_vars(\E msg \in bNet : msg.dst = n /\ BBatch(msg))
    /\ \A n \in AllB : WF_vars(\E msg \in bNet : msg.dst = n /\ BBatchOk(msg))

\* C17 (as claimed): eventually, and from then on, all nodes of the cluster
\* return the same set to read, and it holds every value some node has
\* replied broadcast_ok for.
C17_NodesConverge ==
    <>[](\A n \in bNodes : \A p \in bNodes :
            bMessages[n] = bMessages[p] /\ bAcked[p] \subseteq bMessages[n])

\* C18 (as claimed): a read_ok lists every value the node had replied
\* broadcast_ok for before.
C18_AckedValueIsRead ==
    \A n \in AllB :
        IsSome(bRead[n]) => Unwrap(bRead[n]).after \subseteq Unwrap(bRead[n]).messages

\* C19 (as claimed): eventually every node's buffer is empty and stays empty.
C19_GossipEnds == <>[](\A n \in AllB : bBuffer[n] = { })

\* C20: no step takes a value out of a node's messages.
C20_SeenSetGrows == [][\A n \in AllB : bMessages[n] \subseteq bMessages'[n]]_vars

\* C20's case: a node's messages held one value when it answered a read and
\* holds two now.
C20_Witness ==
    \E n \in AllB :
        /\ IsSome(bRead[n])
        /\ Cardinality(Unwrap(bRead[n]).messages) = 1
        /\ Cardinality(bMessages[n]) = 2

(* ------------------------------------- handlers that call the KV service *)
\* The handlers of g-counter.rs and kafka.rs on the nodes of a cluster, with
\* the KV service and the network.  A handler task runs from one .await of an
\* rpc to the next in one poll, so each reply it takes is one step.  Every rpc
\* re-sends its request when the retry timer fires before a reply (node.rs
\* rpc): the service may get the same request more than once and answers
\* each copy; the rpc returns with the first reply that arrives and the later
\* ones find no slot (Node::ack).  The network delivers in no fixed order.
\* The service serves one request at a time against one store, which is what
\* lin-kv does and one of the things seq-kv may do.

\* Requests the clients send in a run.
MaxAdds == 2
MaxSends == 2
\* Requests the retry timers re-send in a run.
MaxResends == 1

\* enum KvRequest on a key of the service.
CRead(key) == [type |-> "read", key |-> key, from |-> None, to |-> 0]
CCas(key, from, to) == [type |-> "cas", key |-> key, from |-> from, to |-> to]
\* Request::Query { offsets } of kafka.rs, sent to a node.
CQuery(key, offset) == [type |-> "query", key |-> key, from |-> None, to |-> offset]

\* A handler task as main spawns it for a request: its node, the request,
\* and the locals of the handler.  `born`, `knew` and `lost` are history: how
\* many replies the cluster had sent and, for a poll, which CASes had taken
\* effect, when the request was received; whether a CAS of the handler failed.
CTask(node, op, key, arg) ==
    [node |-> node, op |-> op, key |-> key, arg |-> arg, pc |-> "new",
     kv |-> None, val |-> 0, acc |-> 0, todo |-> << >>, got |-> { },
     call |-> None, sent |-> 0, resent |-> 0, lost |-> FALSE,
     born |-> Len(cOut), knew |-> IF op = "poll" THEN cCas ELSE { }]

\* What a handler sends its client.
CReply(type, value, msgs, offsets) ==
    [type |-> type, value |-> value, msgs |-> msgs, offsets |-> offsets]

\* One poll of a handler ends in an rpc, in a reply to the client (with, for
\* kafka's send, the pair it puts in logs first), or in an Err.
CCall(t, pc, dst, req) ==
    [task |-> [t EXCEPT !.pc = pc], call |-> Some([dst |-> dst, req |-> req]),
     out |-> None, log |-> None]
CReturn(t, reply, log) ==
    [task |-> [t EXCEPT !.pc = "done"], call |-> None, out |-> Some(reply),
     log |-> log]
CFail(t) ==
    [task |-> [t EXCEPT !.pc = "err"], call |-> None, out |-> None, log |-> None]

\* BTreeMap::insert(offset, message)
LogInsert(log, offset, message) ==
    { p \in log : p[1] /= offset } \cup { << offset, message >> }

\* The poll of task i of ts ends with o.  An rpc that begins sends the first
\* copy of its request.  The replies to the rpc that has returned find no
\* slot and its unserved reads change nothing, so both are left out from
\* here on; its unserved CASes stay, marked as stale.
CApply(ts, i, o) ==
    LET t == o.task
        mine == { m \in cReqs : m.task = i }
    IN  /\ cTasks' = [ts EXCEPT ![i] =
              IF IsSome(o.call)
              THEN [t EXCEPT !.sent = 1, !.call = o.call]
              ELSE [t EXCEPT !.call = None]]
        /\ cReqs' = (cReqs \ mine)
              \cup { [m EXCEPT !.stale = TRUE] : m \in { x \in mine : x.req.type = "cas" } }
              \cup (IF IsSome(o.call)
                    THEN { [task |-> i, copy |-> 1, stale |-> FALSE,
                            dst |-> Unwrap(o.call).dst, req |-> Unwrap(o.call).req] }
                    ELSE { })
        /\ cReplies' = { r \in cReplies : r.task /= i }
        /\ cOut' = IF IsSome(o.out)
                   THEN Append(cOut, [task |-> i, reply |-> Unwrap(o.out)])
                   ELSE cOut
        /\ cLogs' = IF IsSome(o.log)
                    THEN [cLogs EXCEPT ![t.node] =
                            LogInsert(@, Unwrap(o.log)[1], Unwrap(o.log)[2])]
                    ELSE cLogs

InRpc(t) == t.pc \notin {"new", "done", "err"}

\* The requests the retry timers of the first k tasks have re-sent.
RECURSIVE Resent(_)
Resent(k) == IF k = 0 THEN 0 ELSE cTasks[k].resent + Resent(k - 1)

\* Node::rpc, the sleep branch: no reply yet, the request is sent again.
CRetry(i) ==
    /\ InRpc(cTasks[i])
    /\ cTasks[i].sent < MaxCopies
    /\ Resent(Len(cTasks)) < MaxResends
    /\ cTasks' = [cTasks EXCEPT ![i].sent = @ + 1, ![i].resent = @ + 1]
    /\ cReqs' = cReqs \cup
          { [task |-> i, copy |-> cTasks[i].sent + 1, stale |-> FALSE,
             dst |-> Unwrap(cTasks[i].call).dst, req |-> Unwrap(cTasks[i].call).req] }
    /\ UNCHANGED << cStore, cReplies, cLogs, cOut, cCas >>
    /\ UNCHANGED << rtVars, uidVars, kvVars, faVars, bVars, tVars >>

\* The service serves one copy of a request and answers it.  The answer to a
\* copy whose rpc has returned is dropped by the node.
CServe(m) ==
    /\ m \in cReqs
    /\ m.dst = "kv"
    /\ LET a == KvService(cStore[m.req.key], m.req) IN
       /\ cStore' = [cStore EXCEPT ![m.req.key] = a.store]
       /\ cReplies' = IF m.stale THEN cReplies
                      ELSE cReplies \cup { [task |-> m.task, resp |-> a.resp,
                                            logs |-> { }] }
       /\ cCas' = IF m.req.type = "cas" /\ a.resp.type = "cas_ok"
                  THEN cCas \cup { [task |-> m.task, key |-> m.req.key, to |-> m.req.to] }
                  ELSE cCas
    /\ cReqs' = cReqs \ {m}
    /\ UNCHANGED << cTasks, cLogs, cOut >>
    /\ UNCHANGED << rtVars, uidVars, kvVars, faVars, bVars, tVars >>

(* -------------------------------------------------- the g-counter workload *)
\* delta: u64
GcDeltas == {1, 2}

\* Node::handle_seqkv, the Result it acks the rpc with: the reply's value, or
\* the RpcError of its error code.
HandleSeqkv(resp) == HandleKv(resp)

\* handle_msg, Request::Add, resumed at pc with the Result of its rpc.
GcAddStep(t, res) ==
    LET id == t.node
        cas(v) == CCall([t EXCEPT !.val = v], "cas", "kv", CCas(id, Some(v), v + t.arg))
    IN  CASE t.pc = "read1" -> cas(IF res.ok THEN res.val ELSE 0)
          [] t.pc = "cas" ->
               IF ~res.ok /\ res.err.kind = "CasFailed"
               THEN CCall([t EXCEPT !.lost = TRUE], "read2", "kv", CRead(id))
               ELSE CReturn(t, CReply("add_ok", 0, { }, { }), None)
          [] t.pc = "read2" -> IF res.ok THEN cas(res.val) ELSE CFail(t)

\* handle_msg, Request::Read, resumed in `for id in &node.node_ids` with the
\* Result of the read of Head(todo).
GcReadStep(t, res) ==
    IF res.ok
    THEN LET value == t.acc + res.val
             rest == Tail(t.todo)
         IN  IF rest = << >>
             THEN CReturn([t EXCEPT !.acc = value, !.todo = rest],
                          CReply("read_ok", value, { }, { }), None)
             ELSE CCall([t EXCEPT !.acc = value, !.todo = rest], "sum", "kv",
                        CRead(Head(rest)))
    ELSE IF res.err.kind = "KeyNotFound"
         THEN CReturn(t, CReply("error", 20, { }, { }), None)
         ELSE CFail(t)

CountOp(op) == Cardinality({ i \in 1 .. Len(cTasks) : cTasks[i].op = op })

\* An add request arrives at node n: its handler is spawned and runs to the
\* .await of its first rpc, the read of the node's own key.
GcAdd(n, delta) ==
    /\ CountOp("add") < MaxAdds
    /\ LET t == CTask(n, "add", n, delta) IN
       CApply(Append(cTasks, t), Len(cTasks) + 1, CCall(t, "read1", "kv", CRead(n)))
    /\ UNCHANGED << cStore, cCas >>
    /\ UNCHANGED << rtVars, uidVars, kvVars, faVars, bVars, tVars >>

\* A read request arrives at node n: its handler starts with the first key.
GcRead(n) ==
    /\ CountOp("read") < 1
    /\ LET t == [CTask(n, "read", n, 0) EXCEPT !.todo = CNodeIds] IN
       CApply(Append(cTasks, t), Len(cTasks) + 1,
              CCall(t, "sum", "kv", CRead(Head(CNodeIds))))
    /\ UNCHANGED << cStore, cCas >>
    /\ UNCHANGED << rtVars, uidVars, kvVars, faVars, bVars, tVars >>

\* A reply of seq-kv reaches the node: handle_seqkv acks the rpc with it, the
\* rpc returns and the handler runs to its next rpc or to its end.
GcDeliver(r) ==
    /\ r \in cReplies
    /\ LET t == cTasks[r.task]
           res == HandleSeqkv(r.resp)
       IN  CApply(cTasks, r.task,
                  IF t.op = "add" THEN GcAddStep(t, res) ELSE GcReadStep(t, res))
    /\ UNCHANGED << cStore, cCas >>
    /\ UNCHANGED << rtVars, uidVars, kvVars, faVars, bVars, tVars >>

NextGc ==
    \/ \E n \in CNodes : \E d \in GcDeltas : GcAdd(n, d)
    \/ \E n \in CNodes : GcRead(n)
    \/ \E i \in 1 .. Len(cTasks) : CRetry(i)
    \/ \E m \in cReqs : CServe(m)
    \/ \E r \in cReplies : GcDeliver(r)

SpecGc == Init /\ [][NextGc]_vars

\* The sum of the deltas of the add tasks in S.
RECURSIVE SumDeltas(_)
SumDeltas(S) ==
    IF S = { } THEN 0
    ELSE LET i == CHOOSE x \in S : TRUE IN cTasks[i].arg + SumDeltas(S \ {i})

\* The tasks of an operation, and those answered among the first k replies.
TasksOf(op) == { i \in 1 .. Len(cTasks) : cTasks[i].op = op }
AnsweredBy(op, k) == { cOut[j].task : j \in { x \in 1 .. k : cTasks[cOut[x].task].op = op } }

\* C21 (as claimed): a read that was received when every add of the run had
\* been answered add_ok, and that is answered read_ok, carries the sum of the
\* deltas of these adds.
C21_ReadIsSumOfAdds ==
    \A j \in 1 .. Len(cOut) :
        LET i == cOut[j].task IN
        (/\ cTasks[i].op = "read"
         /\ cOut[j].reply.type = "read_ok"
         /\ AnsweredBy("add", cTasks[i].born) = TasksOf("add"))
        => cOut[j].reply.value = SumDeltas(TasksOf("add"))

\* C22 (as claimed): every read is answered read_ok, whether or not every
\* node's key exists.
C22_MissingKeyCountsAsZero ==
    \A j \in 1 .. Len(cOut) :
        cTasks[cOut[j].task].op = "read" => cOut[j].reply.type = "read_ok"

(* ------------------------------------------------ kafka: send and poll *)
\* src/bin/kafka.rs, one key: `logs` of a node is the log of that key.

\* msg: u64, the message of the k-th send of a run (the clients send a
\* message once), and the offsets a poll asks from.
KMsg(k) == 99 + k
KOffsets == {1, 2}

\* The value of an Option<Value> read from the service, 0 for None
\* (map_or_else(|| Ok(0), u64::de)).
OrZero(o) == IF o = None THEN 0 ELSE Unwrap(o)

\* log.range(offset..)
LogRange(log, offset) == { p \in log : p[1] >= offset }

\* BTreeMap::extend: the pairs of `more` replace those of `log` with the same
\* offset.
LogExtend(log, more) ==
    { p \in log : \A q \in more : q[1] /= p[1] } \cup more

\* handle_send resumed at pc with the Result of its rpc: t.kv is kv_offset
\* and t.val is offset.
SendStep(t, res) ==
    LET key_offset == OffsetKey(t.key)
        cas(kv) == CCall([t EXCEPT !.kv = kv, !.val = OrZero(kv) + 1], "cas", "kv",
                         CCas(key_offset, kv, OrZero(kv) + 1))
    IN  CASE t.pc = "read1" ->
               LET r == KvRead(res) IN IF r.ok THEN cas(r.val) ELSE CFail(t)
          [] t.pc = "cas" ->
               LET r == KvCas(res) IN
               IF ~r.ok THEN CFail(t)
               ELSE IF r.val
               THEN CReturn(t, CReply("send_ok", t.val, { }, { }),
                            Some(<< t.val, t.arg >>))
               ELSE CCall([t EXCEPT !.lost = TRUE], "read2", "kv", CRead(key_offset))
          [] t.pc = "read2" ->
               LET r == KvRead(res) IN
               IF ~r.ok \/ r.val = None THEN CFail(t) ELSE cas(r.val)

\* handle_poll resumed with the logs the other node answered its query with:
\* they are folded into `queries`, the node's own logs from the offset on are
\* added, and poll_ok is sent.
PollStep(t, logs, own) ==
    CReturn(t, CReply("poll_ok", 0, LogExtend(logs, LogRange(own, t.arg)), { }), None)

\* A send request arrives at node n: handle_send runs to its first kv_read.
KSend(n, key) ==
    /\ CountOp("send") < MaxSends
    /\ LET t == CTask(n, "send", key, KMsg(CountOp("send") + 1)) IN
       CApply(Append(cTasks, t), Len(cTasks) + 1,
              CCall(t, "read1", "kv", CRead(OffsetKey(key))))
    /\ UNCHANGED << cStore, cCas >>
    /\ UNCHANGED << rtVars, uidVars, kvVars, faVars, bVars, tVars >>

\* A poll request arrives at node n: handle_poll sends a query to every other
\* node of node_ids.
KPoll(n, key, offset) ==
    /\ CountOp("poll") < 1
    /\ LET t == CTask(n, "poll", key, offset)
           peer == CHOOSE id \in CNodes : id /= n
       IN  CApply(Append(cTasks, t), Len(cTasks) + 1,
                  CCall(t, "query", peer, CQuery(key, offset)))
    /\ UNCHANGED << cStore, cCas >>
    /\ UNCHANGED << rtVars, uidVars, kvVars, faVars, bVars, tVars >>

\* handle_query on the node a query was sent to: it replies query_ok with
\* its logs from the offset on.
KQuery(m) ==
    /\ m \in cReqs
    /\ m.dst \in CNodes
    /\ cReqs' = cReqs \ {m}
    /\ cReplies' = cReplies \cup
                      { [task |-> m.task, resp |-> Resp("query_ok", 0, 0, ""),
                         logs |-> LogRange(cLogs[m.dst], m.req.to)] }
    /\ UNCHANGED << cStore, cTasks, cLogs, cOut, cCas >>
    /\ UNCHANGED << rtVars, uidVars, kvVars, faVars, bVars, tVars >>

\* A reply reaches the node: handle_kv (or handle_query_ok) acks the rpc with
\* it, the rpc returns and the handler runs to its next rpc or to its end.
KDeliver(r) ==
    /\ r \in cReplies
    /\ cTasks[r.task].op \in {"send", "poll"}
    /\ LET t == cTasks[r.task] IN
       CApply(cTasks, r.task,
              IF t.op = "send" THEN SendStep(t, HandleKv(r.resp))
              ELSE PollStep(t, r.logs, cLogs[t.node]))
    /\ UNCHANGED << cStore, cCas >>
    /\ UNCHANGED << rtVars, uidVars, kvVars, faVars, bVars, tVars >>

NextKafka ==
    \/ \E n \in CNodes : \E k \in KafkaKeys : KSend(n, k)
    \/ \E n \in CNodes : \E k \in KafkaKeys : \E o \in KOffsets : KPoll(n, k, o)
    \/ \E i \in 1 .. Len(cTasks) : CRetry(i)
    \/ \E m \in cReqs : CServe(m)
    \/ \E m \in cReqs : KQuery(m)
    \/ \E r \in cReplies : KDeliver(r)

SpecKafka == Init /\ [][NextKafka]_vars

\* The send_ok replies of the run, by their place in cOut.
SendOks == { j \in 1 .. Len(cOut) : cOut[j].reply.type = "send_ok" }

\* C23: no two send_ok replies carry the same offset, and a send received
\* after a send_ok was sent is answered with a larger offset than that one.
C23_OffsetsNeverReused ==
    \A j1 \in SendOks : \A j2 \in SendOks :
        /\ j1 /= j2 => cOut[j1].reply.value /= cOut[j2].reply.value
        /\ cTasks[cOut[j2].task].born >= j1
             => cOut[j2].reply.value > cOut[j1].reply.value

\* C23's case: two nodes have each answered a send that was received before
\* any reply was sent, and one of the two lost the CAS to the other and went
\* through the loop again.
C23_Witness ==
    \E j1 \in SendOks : \E j2 \in SendOks :
        /\ cTasks[cOut[j1].task].node /= cTasks[cOut[j2].task].node
        /\ cTasks[cOut[j1].task].born = 0
        /\ cTasks[cOut[j2].task].born = 0
        /\ cTasks[cOut[j2].task].lost
        /\ cTasks[cOut[j2].task].resent = 0

\* C24 (as claimed): when every send of the run has been answered, the
\* offsets of the send_ok replies are 1, 2, ..., N.
C24_OffsetsHaveNoGap ==
    (\A i \in 1 .. Len(cTasks) : cTasks[i].pc = "done")
    => { cOut[j].reply.value : j \in SendOks } = 1 .. Cardinality(SendOks)

\* C25 (as claimed): a poll_ok from offset o holds the pair of every offset
\* >= o whose CAS had taken effect when the poll was received, no pair below
\* o, and only pairs of an offset with the message of the send whose CAS set
\* the counter to it.
C25_PollReturnsAssigned ==
    \A j \in 1 .. Len(cOut) :
        LET t == cTasks[cOut[j].task]
            msgs == cOut[j].reply.msgs
        IN  t.op = "poll" =>
              /\ \A c \in t.knew :
                   c.to >= t.arg => << c.to, cTasks[c.task].arg >> \in msgs
              /\ \A p \in msgs : p[1] >= t.arg
              /\ \A p \in msgs :
                   \E c \in cCas : c.to = p[1] /\ cTasks[c.task].arg = p[2]

(* ------------------------------- kafka: commit_offsets and list_committed *)
\* commit_offsets and list_committed_offsets requests the clients send.
MaxCommits == 2

\* The offsets the clients commit, and those lin-kv may hold for a key that
\* some client of the service has written before.
CommitVals == {1, 2, 3}
SeedVals == {1}

\* A comparison that never finds the offset committed.
NeverCommitted(committed, val) == FALSE

\* `if committed >= val`
AlreadyCommitted(committed, val) == committed >= val

CommitOk(t) == CReturn(t, CReply("commit_offsets_ok", 0, { }, { }), None)

\* handle_commit (one key in offsets) resumed at pc with the Result of its
\* rpc: t.arg is val and t.kv is kv_committed.
CommitStep(t, res) ==
    LET key == CommittedKey(t.key)
        cas(kv) == CCall([t EXCEPT !.kv = kv], "cas", "kv", CCas(key, kv, t.arg))
    IN  CASE t.pc = "read1" ->
               LET r == KvRead(res) IN
               IF ~r.ok THEN CFail(t)
               ELSE IF r.val = None THEN CommitOk(t)
               ELSE IF AlreadyCommitted(Unwrap(r.val), t.arg) THEN CommitOk(t)
               ELSE cas(r.val)
          [] t.pc = "cas" ->
               LET r == KvCas(res) IN
               IF ~r.ok THEN CFail(t)
               ELSE IF r.val THEN CommitOk(t)
               ELSE CCall([t EXCEPT !.lost = TRUE], "read2", "kv", CRead(key))
          [] t.pc = "read2" ->
               LET r == KvRead(res) IN
               IF ~r.ok \/ r.val = None THEN CFail(t)
               ELSE IF AlreadyCommitted(Unwrap(r.val), t.arg) THEN CommitOk(t)
               ELSE cas(Some(t.arg))

\* handle_list_committed (one key in keys) resumed with the Result of its
\* kv_read: a key that is not found is left out, one that is found is
\* entered under the name it has in lin-kv.
ListStep(t, res) ==
    LET k == CommittedKey(t.key)
        r == KvRead(res)
    IN  IF ~r.ok THEN CFail(t)
        ELSE CReturn(t, CReply("list_committed_offsets_ok", 0, { },
                               IF r.val = None THEN { }
                               ELSE { << k, Unwrap(r.val) >> }), None)

\* lin-kv holds a committed offset for the key that a client of the service
\* has written.
LinKvSeed(key, v) ==
    /\ cStore[CommittedKey(key)] = None
    /\ cTasks = << >>
    /\ cStore' = [cStore EXCEPT ![CommittedKey(key)] = Some(v)]
    /\ UNCHANGED << cTasks, cReqs, cReplies, cLogs, cOut, cCas >>
    /\ UNCHANGED << rtVars, uidVars, kvVars, faVars, bVars, tVars >>

\* A commit_offsets request arrives at node n: handle_commit runs to its
\* kv_read.
KCommit(n, key, val) ==
    /\ CountOp("commit") < MaxCommits
    /\ LET t == CTask(n, "commit", key, val) IN
       CApply(Append(cTasks, t), Len(cTasks) + 1,
              CCall(t, "read1", "kv", CRead(CommittedKey(key))))
    /\ UNCHANGED << cStore, cCas >>
    /\ UNCHANGED << rtVars, uidVars, kvVars, faVars, bVars, tVars >>

\* A list_committed_offsets request arrives at node n.
KList(n, key) ==
    /\ CountOp("list") < 1
    /\ LET t == CTask(n, "list", key, 0) IN
       CApply(Append(cTasks, t), Len(cTasks) + 1,
              CCall(t, "read1", "kv", CRead(CommittedKey(key))))
    /\ UNCHANGED << cStore, cCas >>
    /\ UNCHANGED << rtVars, uidVars, kvVars, faVars, bVars, tVars >>

\* A reply of lin-kv reaches the node and the handler goes on.
KCommitDeliver(r) ==
    /\ r \in cReplies
    /\ cTasks[r.task].op \in {"commit", "list"}
    /\ LET t == cTasks[r.task]
           res == HandleKv(r.resp)
       IN  CApply(cTasks, r.task,
                  IF t.op = "commit" THEN CommitStep(t, res) ELSE ListStep(t, res))
    /\ UNCHANGED << cStore, cCas >>
    /\ UNCHANGED << rtVars, uidVars, kvVars, faVars, bVars, tVars >>

NextCommit ==
    \/ \E k \in KafkaKeys : \E v \in SeedVals : LinKvSeed(k, v)
    \/ \E n \in CNodes : \E k \in KafkaKeys : \E v \in CommitVals : KCommit(n, k, v)
    \/ \E n \in CNodes : \E k \in KafkaKeys : KList(n, k)
    \/ \E i \in 1 .. Len(cTasks) : CRetry(i)
    \/ \E m \in cReqs : CServe(m)
    \/ \E r \in cReplies : KCommitDeliver(r)

SpecCommit == Init /\ [][NextCommit]_vars

\* C26 (as claimed): a list_committed_offsets received after a
\* commit_offsets_ok for {k: o} was sent is answered with a map that has an
\* entry for k of at least o.
C26_ListShowsCommitted ==
    \A j \in 1 .. Len(cOut) : \A j0 \in 1 .. Len(cOut) :
        LET t == cTasks[cOut[j].task]
            t0 == cTasks[cOut[j0].task]
        IN  (t.op = "list" /\ t0.op = "commit" /\ t0.key = t.key /\ t.born >= j0)
            => \E e \in cOut[j].reply.offsets : e[1] = t.key /\ e[2] >= t0.arg

MaxOps == 3

\* val: Option<u64>, and struct Op.
TxnVals == {None, Some(5), Some(6)}
Op(kind, key, val) == [kind |-> kind, key |-> key, val |-> val]
\* The ops the clients send: a read comes with null, a write with a value or
\* with null.
Ops == { Op("r", key, None) : key \in TxnKeys }
         \cup { Op("w", key, val) : key \in TxnKeys, val \in TxnVals }

\* Request::Txn { txn: Vec<Op> }
RECURSIVE SeqsUpTo(_, _)
SeqsUpTo(S, n) ==
    IF n = 0 THEN { << >> }
    ELSE LET shorter == SeqsUpTo(S, n - 1) IN
         shorter \cup { Append(q, x) : q \in shorter, x \in S }
Txns == SeqsUpTo(Ops, MaxOps)

\* An operation that leaves a read as it came.
ApplyOpReadAsSent(st, op) ==
    IF op.kind = "w" /\ IsSome(op.val)
    THEN [state |-> [st EXCEPT ![op.key] = op.val], op |-> op]
    ELSE [state |-> st, op |-> op]

\* The closure of handle_txn on one op: the State and the op afterwards.
ApplyOp(st, op) ==
    IF op.kind = "r"
    THEN [state |-> st, op |-> [op EXCEPT !.val = st[op.key]]]
    ELSE IF IsSome(op.val)
         THEN [state |-> [st EXCEPT ![op.key] = op.val], op |-> op]
         ELSE [state |-> st, op |-> op]

\* txn.iter_mut().for_each(..): the ops from the first to the last.
RECURSIVE ForEach(_, _)
ForEach(st, txn) ==
    IF txn = << >> THEN [state |-> st, txn |-> << >>]
    ELSE LET a == ApplyOp(st, Head(txn))
             rest == ForEach(a.state, Tail(txn))
         IN  [state |-> rest.state, txn |-> << a.op >> \o rest.txn]

\* handle_txn: apply the ops, then reply txn_ok with them.
HandleTxn(txn) ==
    /\ LET a == ForEach(state, txn) IN
       /\ state' = a.state
       /\ txnOk' = Some(a.txn)
    /\ txnIn' = Some([txn |-> txn, before |-> state])
    /\ UNCHANGED << rtVars, uidVars, kvVars, faVars, bVars, cVars, txnTasks, txnLog >>

NextTxn == \E txn \in Txns : HandleTxn(txn)

SpecTxn == Init /\ [][NextTxn]_vars

\* The value of key k after the first n ops of txn on the map `before`: that
\* of the last write of a value to k among them, or the one it had.
ValueAfter(before, txn, n, k) ==
    LET ws == { i \in 1 .. n : txn[i].kind = "w" /\ txn[i].key = k /\ txn[i].val /= None }
    IN  IF ws = { } THEN before[k]
        ELSE txn[CHOOSE i \in ws : \A x \in ws : x <= i].val

\* C28: txn_ok holds the ops of the txn in order, every write as it came and
\* every read with the value its key had after the ops before it (null when
\* absent); afterwards every key holds the value of the last write of a value
\* to it, or what it held before.
C28_TxnAppliedInOrder ==
    IsSome(txnIn) =>
        LET txn == Unwrap(txnIn).txn
            before == Unwrap(txnIn).before
            ok == Unwrap(txnOk)
        IN  /\ Len(ok) = Len(txn)
            /\ \A i \in 1 .. Len(txn) :
                 /\ ok[i].kind = txn[i].kind
                 /\ ok[i].key = txn[i].key
                 /\ ok[i].val = IF txn[i].kind = "w" THEN txn[i].val
                                ELSE ValueAfter(before, txn, i - 1, txn[i].key)
            /\ \A k \in TxnKeys : state[k] = ValueAfter(before, txn, Len(txn), k)

\* C28's case: on the empty map, the txn [w 1 5, r 1 null, r 2 null] has
\* been answered [w 1 5, r 1 5, r 2 null].
C28_Witness ==
    /\ txnIn = Some([txn |-> << Op("w", 1, Some(5)), Op("r", 1, None), Op("r", 2, None) >>,
                     before |-> [k \in TxnKeys |-> None]])
    /\ txnOk = Some(<< Op("w", 1, Some(5)), Op("r", 1, Some(5)), Op("r", 2, None) >>)
    /\ state = [k \in TxnKeys |-> IF k = 1 THEN Some(5) ELSE None]

(* ----------------------------------------- kv_fetch_and, applied how often *)
\* C29 (as claimed): when the call has returned and no other writer has
\* written the key, which was absent, the key holds one application of func
\* to the default, and that is what the call returned.
C29_FetchAndAppliesOnce ==
    (faPc = "done" /\ wLeft = MaxWrites)
    => kvStore = Some(Func(Default)) /\ faVal = Func(Default)

(* --------------------------------------------- broadcast: one flush round *)
\* A cluster of three nodes, each with two peers, whose clients send their
\* broadcasts to n1 and no reads.
NextFlush ==
    \/ BInit(AllB)
    \/ \E n \in AllB : BTopology(n)
    \/ \E m \in BVals : BBroadcast("n1", m)
    \/ \E n \in AllB : BFlush(n)
    \/ \E msg \in bNet : BBatch(msg)
    \/ \E msg \in bNet : BBatchOk(msg)

\* The messages the nodes may send each other.
BBatches ==
    { Batch(src, dst, ms) : src \in AllB, dst \in AllB, ms \in SUBSET BVals \ {{ }} }
BBatchOks == { BatchOk(src, dst) : src \in AllB, dst \in AllB }

\* Every node's batch-sending task wakes again and again, and the network
\* delivers every message it holds.
FairSpecFlush ==
    /\ Init /\ [][NextFlush]_vars
    /\ \A n \in AllB : WF_vars(BTopology(n))
    /\ \A n \in AllB : WF_vars(BFlush(n))
    /\ \A msg \in BBatches : WF_vars(BBatch(msg))
    /\ \A msg \in BBatchOks : WF_vars(BBatchOk(msg))

\* What a round of handle_batch_sending is claimed to do at node n: a step
\* that takes a value out of the buffer takes all of it, while the task is
\* asleep, and sends it to the first peer; a later step of the round sends
\* the same batch to the next peer, or ends the round after the last.
FlushStep(n) ==
    /\ ~(bBuffer[n] \subseteq bBuffer'[n]) =>
          /\ bFl[n] = Asleep
          /\ bBuffer'[n] = { }
          /\ IF bPeers[n] = << >> THEN bFl'[n] = Asleep
             ELSE /\ bFl'[n] = [pending |-> bBuffer[n], todo |-> Tail(bPeers[n]),
                                wait |-> Head(bPeers[n])]
                  /\ Batch(n, Head(bPeers[n]), bBuffer[n]) \in bNet'
    /\ (bFl[n] /= Asleep /\ bFl'[n] /= bFl[n]) =>
          IF bFl[n].todo = << >> THEN bFl'[n] = Asleep
          ELSE /\ bFl'[n] = [pending |-> bFl[n].pending, todo |-> Tail(bFl[n].todo),
                             wait |-> Head(bFl[n].todo)]
               /\ Batch(n, Head(bFl[n].todo), bFl[n].pending) \in bNet'

\* C30: every round is such a round, and every round comes to its end, which
\* it does after its last peer only; so all that was in the buffer when it
\* was taken is sent to every peer, and what is inserted during a round is
\* taken by a later one.
C30_FlushSendsAllToEveryPeer ==
    /\ [][\A n \in AllB : FlushStep(n)]_vars
    /\ \A n \in AllB : (bFl[n] /= Asleep) ~> (bFl[n] = Asleep)

\* C30's case: n1 has taken a batch, has called its first peer and now
\* awaits the reply of its second, while a value broadcast during the round
\* waits in the buffer.
C30_Witness ==
    /\ bFl["n1"].wait = "n3"
    /\ bFl["n1"].pending = {1}
    /\ bBuffer["n1"] = {2}
    /\ bMessages["n2"] = {1}

(* ------------------------------------- kafka: commit_offsets, its ending *)
\* The committers alone, with a lin-kv and a network that lose and repeat
\* nothing: no retry timer fires and nobody lists.
NextCommitOnly ==
    \/ \E k \in KafkaKeys : \E v \in SeedVals : LinKvSeed(k, v)
    \/ \E n \in CNodes : \E k \in KafkaKeys : \E v \in CommitVals : KCommit(n, k, v)
    \/ \E m \in cReqs : CServe(m)
    \/ \E r \in cReplies : KCommitDeliver(r)

\* Fair scheduling and a lin-kv that answers every request: the request of
\* every handler is served and its reply is handled.
FairSpecCommit ==
    /\ Init /\ [][NextCommitOnly]_vars
    /\ \A i \in 1 .. MaxCommits :
         /\ WF_vars(\E m \in cReqs : m.task = i /\ CServe(m))
         /\ WF_vars(\E r \in cReplies : r.task = i /\ KCommitDeliver(r))

MaxTxns == 2

\* The txns of the clients of one node that are in flight together.
TxnsInFlight == SeqsUpTo(Ops, 2)

\* A poll of handle_txn that stops after one op.
PollEndNextOp(txn, at) == IF at < Len(txn) THEN at + 1 ELSE at

\* The op at which a poll of handle_txn that has applied `at` ops suspends:
\* for_each is a synchronous call and the first .await is that of the reply,
\* so the poll applies every op that is left.
PollEnd(txn, at) == Len(txn)

\* main_loop: a message has been received; tokio::spawn makes its handler
\* task, which has not been polled yet.
TxnSpawn(txn) ==
    LET id == Len(txnLog) + Cardinality(txnTasks) + 1 IN
    /\ id <= MaxTxns
    /\ txnTasks' = txnTasks \cup
           { [id |-> id, txn |-> txn, at |-> 0, ok |-> << >>,
              pending |-> Cardinality(txnTasks)] }
    /\ UNCHANGED << rtVars, uidVars, kvVars, faVars, bVars, cVars,
                    state, txnIn, txnOk, txnLog >>

\* The current_thread runtime polls one of the spawned tasks: handle_txn
\* applies its ops up to where the poll suspends and, when none is left,
\* replies txn_ok.
TxnPoll(t) ==
    LET end == PollEnd(t.txn, t.at)
        a == ForEach(state, SubSeq(t.txn, t.at + 1, end))
        ok == t.ok \o a.txn
    IN  /\ state' = a.state
        /\ IF end = Len(t.txn)
           THEN /\ txnTasks' = txnTasks \ {t}
                /\ txnLog' = Append(txnLog, [id |-> t.id, txn |-> t.txn, ok |-> ok,
                                             pending |-> t.pending])
           ELSE /\ txnTasks' = (txnTasks \ {t}) \cup {[t EXCEPT !.at = end, !.ok = ok]}
                /\ UNCHANGED txnLog
        /\ UNCHANGED << rtVars, uidVars, kvVars, faVars, bVars, cVars, txnIn, txnOk >>

NextTxnTasks ==
    \/ \E txn \in TxnsInFlight : TxnSpawn(txn)
    \/ \E t \in txnTasks : TxnPoll(t)

SpecTxnTasks == Init /\ [][NextTxnTasks]_vars

\* The orders in which n txns can run one after the other.
Orders(n) == { p \in [1 .. n -> 1 .. n] : \A i, j \in 1 .. n : p[i] = p[j] => i = j }

\* Whether running the txns of the log one at a time, in the order p from its
\* i-th place on and on the map st, gives every txn the reply it got.
RECURSIVE SerialFrom(_, _, _)
SerialFrom(st, p, i) ==
    IF i > Len(txnLog) THEN TRUE
    ELSE LET a == ForEach(st, txnLog[p[i]].txn) IN
         /\ a.txn = txnLog[p[i]].ok
         /\ SerialFrom(a.state, p, i + 1)

\* C32: no task is left between two ops of its txn, where another task could
\* apply one of its own, and the txn_ok replies the node has sent are those of
\* the txns run one at a time in some order, from the empty map.
C32_TxnsRunOneAtATime ==
    /\ \A t \in txnTasks : t.at = 0
    /\ \E p \in Orders(Len(txnLog)) : SerialFrom([k \in TxnKeys |-> None], p, 1)

\* C32's case: the txn [r 1 null] was spawned while the task of
\* [w 1 5, r 1 null] was still pending; both have been answered, the first
\* [w 1 5, r 1 5] and the second [r 1 5].
C32_Witness ==
    /\ Len(txnLog) = 2
    /\ txnLog[1].txn = << Op("w", 1, Some(5)), Op("r", 1, None) >>
    /\ txnLog[1].ok = << Op("w", 1, Some(5)), Op("r", 1, Some(5)) >>
    /\ txnLog[2].pending = 1
    /\ txnLog[2].txn = << Op("r", 1, None) >>
    /\ txnLog[2].ok = << Op("r", 1, Some(5)) >>

====
